---- MODULE Spec2Model ----
(***************************************************************************)
(* Reliability core of the trading pipeline: the three webhook trade       *)
(* executors with their guardrail state, and the tiered event publisher.   *)
(*                                                                         *)
(*   TA   TradeAuto/lambdas/webhook-trading/lambda_function.py with        *)
(*        TradeAuto/src/common/aws_utils.py (Guardrails on S3)             *)
(*   DEP  Project4-Swing-Automation-System/deployment/webhook-trading/     *)
(*        webhook-trading.py (guardrails on S3 markers)                    *)
(*   DDB  Project4-Swing-Automation-System/Lambda/webhook-trading.py       *)
(*        (guardrails in a DynamoDB table)                                 *)
(*                                                                         *)
(*   fetch     Mohamed-TradeBot/lambdas/fetch_lambda/fetch_lambda.py        *)
(*   analysis  Mohamed-TradeBot/lambdas/analysis_lambda/analysis_lambda.py  *)
(*                                                                         *)
(* One behaviour of Spec is a sequence of deliveries to ONE of the three   *)
(* handlers (impl, fixed at Init) interleaved with clock ticks.            *)
(* Invocations are sequential there: every Deliver action is one whole     *)
(* invocation of lambda_handler.  The other specifications look at one     *)
(* part of the same code each:                                             *)
(*                                                                         *)
(*   PubSpec      publish calls of one stage, one step per call to         *)
(*                EventBridge or Lambda; PubFairSpec adds that a publish   *)
(*                in progress runs on                                      *)
(*   RaceSpec     two overlapping invocations for one event, one step per  *)
(*                store or broker call                                     *)
(*   AuthSpec     deliveries that carry the secret headers                 *)
(*   ReportSpec   deliveries whose log write or e-mail may fail            *)
(*   RetrySpec    one call of the Alpaca request helper                    *)
(*   PriceSpec    one computation of the protective prices                 *)
(*   StopsSpec    one placement of an order with its protective orders     *)
(*   KeySpec      the debounce keys of two deliveries                      *)
(*   ConfSpec     deliveries to DDB whose bodies carry a confidence        *)
(*                                                                         *)
(* Left out of the handlers: the buying-power check, a missing S3_BUCKET,  *)
(* the expiry of DynamoDB items, and a store that fails for only part of   *)
(* an invocation.                                                          *)
(***************************************************************************)
EXTENDS Integers, Sequences, FiniteSets, TLC

(***************************************************************************)
(* Configuration read from the environment and bounds of the model.  The   *)
(* guardrail settings are environment variables; the model runs them with  *)
(* small values so that every window opens and closes inside MaxTicks.     *)
(***************************************************************************)
DEBOUNCE_SECONDS == 1
MIN_INTERVAL_SAME_SYMBOL_SECONDS == 2
MAX_TRADES_PER_DAY == 2
DEBOUNCE_COUNT == 2
\* seconds in a UTC calendar day (strftime('%Y-%m-%d')), scaled
DayLen == 4
\* the clock value of the first delivery: epoch seconds are far larger than
\* any configured interval, so "now - 0" never falls inside a window
Epoch == 13
MaxTicks == 3
MaxDeliveries == 4

VARIABLES
    impl,         \* which handler this behaviour runs: "TA", "DEP" or "DDB"
    autoExecute,  \* AUTO_EXECUTE
    now,          \* wall clock, whole seconds
    nDeliv,       \* number of invocations so far
    s3ta,         \* TA: guardrails/debounce.json, guardrails/symbol/*, guardrails/daily/*
    s3dep,        \* DEP: state/recent/*.marker, state/last-trade/*, state/daily-counts/*
    ddb,          \* DDB: items of the idempotency table, by kind
    execLog,      \* keys of the execution-log objects written so far
    cur,          \* the latest invocation: its input, its response, what it did
    gh,           \* history of admissions (not program state; read by the properties only)
    pubCfg,       \* publisher: which stage publishes, and what its fallbacks are given
    pub,          \* publisher: the publish call in progress
    fh,           \* fetch stage: the lambda_handler invocation in progress
    race,         \* two overlapping invocations: where each is in its store calls
    auth,         \* WEBHOOK_HMAC_SECRET is set, and the secret headers of the latest request
    io,           \* whether the log write and the e-mail of the latest invocation went through
    call          \* the latest call of a helper function: its input and what it returned

whVars == <<impl, autoExecute, now, nDeliv, s3ta, s3dep, ddb, execLog, cur, gh,
           race, auth, io, call>>

pubVars == <<pubCfg, pub, fh>>

vars == <<impl, autoExecute, now, nDeliv, s3ta, s3dep, ddb, execLog, cur, gh,
          pubCfg, pub, fh, race, auth, io, call>>

Impls == {"TA", "DEP", "DDB"}
Symbols == {"AAPL", "MSFT"}
Days == (Epoch \div DayLen) .. ((Epoch + MaxTicks) \div DayLen)

Day(t) == t \div DayLen

(***************************************************************************)
(* Inbound payloads (already JSON-parsed).  hasTs: the body carries its    *)
(* own "timestamp" field (the same string on every redelivery); without    *)
(* it the Alpaca handlers stamp datetime.utcnow().isoformat().             *)
(***************************************************************************)
Payload(sym, act, q, ts) ==
    [symbol |-> sym, action |-> act, qty |-> q, source |-> "test", hasTs |-> ts]

ValidPayloads ==
    { Payload("AAPL", "BUY", 1, FALSE),
      Payload("AAPL", "BUY", 1, TRUE),
      Payload("AAPL", "SELL", 1, FALSE),
      Payload("MSFT", "BUY", 1, FALSE) }

\* Only DEP reads the timestamp (it hashes it); the other two handlers are
\* driven with the bodies that differ in a field they read.
PayloadsOf(i) ==
    IF i = "DEP"
    THEN {p \in ValidPayloads : p.action = "BUY"}
    ELSE {p \in ValidPayloads : ~p.hasTs}

InvalidPayloads ==
    { Payload("", "BUY", 1, FALSE),
      Payload("AAPL", "HOLD", 1, FALSE),
      Payload("AAPL", "BUY", 0, FALSE) }

IsValid(p) == p.symbol # "" /\ p.action \in {"BUY", "SELL"} /\ p.qty > 0

StableKey(p) == <<p.symbol, p.action, p.qty, p.source>>

(***************************************************************************)
(* What the broker answers to the successive HTTP attempts of one order    *)
(* placement: "ok" (2xx with an order id), "http500" (a non-2xx answer),   *)
(* "exc" (a transport exception).  The request helper on its own is also   *)
(* given "http401" (the broker refuses the credentials, 401 or 403) and    *)
(* "http429" (rate limit).                                                 *)
(***************************************************************************)
\* the status code of an answer
StatusOf(o) ==
    CASE o = "ok" -> 200
      [] o = "http401" -> 401
      [] o = "http429" -> 429
      [] OTHER -> 500

BrokerScripts ==
    { <<"ok">>,
      <<"http500", "http500", "http500">>,
      <<"exc", "exc", "exc">>,
      <<"exc", "ok">>,
      <<"http500", "ok">> }

Put(f, k, v) == [x \in (DOMAIN f) \cup {k} |-> IF x = k THEN v ELSE f[x]]

Get(f, k, d) == IF k \in DOMAIN f THEN f[k] ELSE d

(***************************************************************************)
(* Broker Gateway                                                          *)
(***************************************************************************)
\* max_retries passed by place_order of DEP; retries passed by place_order of DDB
DepMaxRetries == 2
DdbRetries == 3

\* "import requests" succeeded when the module was loaded (the handlers run
\* on a runtime that has the library); otherwise urllib is used
RequestsAvailable == TRUE

\* DEP _request_with_retries: range(max_retries + 1) attempts.  With requests
\* an answer of any status is RETURNED (no raise on non-2xx); urlopen raises
\* on a non-2xx answer.  Only an exception is retried; the last one is
\* re-raised.
RECURSIVE DepRequestWithRetries(_, _, _, _)
DepRequestWithRetries(script, attempt, max_retries, has_requests) ==
    LET o == script[attempt + 1] IN
    IF o = "ok" THEN [raised |-> FALSE, status |-> 200, attempts |-> attempt + 1]
    ELSE IF o # "exc" /\ has_requests
    THEN [raised |-> FALSE, status |-> StatusOf(o), attempts |-> attempt + 1]
    ELSE IF attempt < max_retries
         THEN DepRequestWithRetries(script, attempt + 1, max_retries, has_requests)
         ELSE [raised |-> TRUE, status |-> 0, attempts |-> attempt + 1]

\* DDB _request_with_retries: attempts 1..retries; raise_for_status() (or
\* urlopen) turns a non-2xx answer into an exception, so both kinds of
\* failure are retried.
RECURSIVE DdbRequestWithRetries(_, _, _)
DdbRequestWithRetries(script, attempt, retries) ==
    LET o == script[attempt] IN
    IF o = "ok" THEN [raised |-> FALSE, status |-> 200, attempts |-> attempt]
    ELSE IF attempt < retries
         THEN DdbRequestWithRetries(script, attempt + 1, retries)
         ELSE [raised |-> TRUE, status |-> 0, attempts |-> attempt]

\* An order result as the handlers read it: has_id is "'id' in order_result".
OrderResult(id, st, err, n) ==
    [has_id |-> id, status |-> st, error |-> err, attempts |-> n]

\* DEP place_order: 2xx -> the broker's order; anything else -> {"error": ...}
DepPlaceOrder(script) ==
    LET r == DepRequestWithRetries(script, 0, DepMaxRetries, RequestsAvailable) IN
    IF ~r.raised /\ 200 <= r.status /\ r.status < 300
    THEN OrderResult(TRUE, "accepted", FALSE, r.attempts)
    ELSE OrderResult(FALSE, "N/A", TRUE, r.attempts)

\* DDB place_order: simulated when AUTO_EXECUTE is false (no request is made)
DdbPlaceOrder(script, auto) ==
    IF ~auto THEN OrderResult(TRUE, "simulated", FALSE, 0)
    ELSE LET r == DdbRequestWithRetries(script, 1, DdbRetries) IN
         IF r.raised THEN OrderResult(FALSE, "N/A", TRUE, r.attempts)
         ELSE OrderResult(TRUE, "accepted", FALSE, r.attempts)

\* TA brokers/zerodha.place_order: one kite.place_order call, which returns
\* an order id or raises
KitePlaceOrder(script) ==
    IF script[1] = "ok"
    THEN OrderResult(TRUE, "submitted", FALSE, 1)
    ELSE OrderResult(FALSE, "N/A", TRUE, 1)

\* no helper has been called
NoCall == [fn |-> "none"]

\* lambda_handler of DDB, "Standard webhook format": webhook_data is built
\* from five named fields of the body and from nothing else
DdbWebhookData(p, extras) ==
    [k \in {"symbol", "action", "qty", "source", "timestamp"} |->
        CASE k = "symbol" -> p.symbol
          [] k = "action" -> p.action
          [] k = "qty" -> p.qty
          [] k = "source" -> p.source
          [] k = "timestamp" -> IF p.hasTs THEN "T0" ELSE "utcnow"]

(***************************************************************************)
(* Protective prices.  Prices are whole numbers of the smallest unit the   *)
(* code rounds to (round(x, 4) in the webhook handler: ten-thousandths;    *)
(* round(x, 2) in place_order_with_stops: cents); percentages are whole    *)
(* per cent.                                                               *)
(***************************************************************************)
\* trading-lambda.py: STOP_LOSS_PCT = 0.05, TAKE_PROFIT_PCT = 0.10
STOP_LOSS_PCT == 5
TAKE_PROFIT_PCT == 10

\* the smallest reference prices, one unit apart
MaxPrice == 12

\* round(n / d, digits) counted in units: the nearest whole number; a value
\* exactly half-way goes to either neighbour (the binary float of the
\* product decides which)
Round(n, d) ==
    {q \in {n \div d, n \div d + 1} :
        2 * (IF n >= q * d THEN n - q * d ELSE q * d - n) <= d}

\* DDB lambda_handler, "Suggested price calculations": stop_loss_price and
\* limit_price from current_price and the two percentages, each only for a
\* percentage above 0 (has_stop, has_limit: the price is in 'suggested')
SuggestedPrices(action, current_price, stop_loss_pct, limit_pct) ==
    LET stops == IF stop_loss_pct <= 0 THEN {0}
                 ELSE IF action = "BUY"
                 THEN Round(current_price * (100 - stop_loss_pct), 100)
                 ELSE Round(current_price * (100 + stop_loss_pct), 100)
        limits == IF limit_pct <= 0 THEN {0}
                  ELSE IF action = "BUY"
                  THEN Round(current_price * (100 - limit_pct), 100)
                  ELSE Round(current_price * (100 + limit_pct), 100)
    IN { [has_stop |-> stop_loss_pct > 0, stop |-> st,
          has_limit |-> limit_pct > 0, limit |-> li] : st \in stops, li \in limits }

\* trading-lambda.py place_order_with_stops: stop_price and profit_price
StopsPrices(side, current_price) ==
    IF side = "buy"
    THEN { [stop |-> st, limit |-> li] :
             st \in Round(current_price * (100 - STOP_LOSS_PCT), 100),
             li \in Round(current_price * (100 + TAKE_PROFIT_PCT), 100) }
    ELSE { [stop |-> st, limit |-> li] :
             st \in Round(current_price * (100 + STOP_LOSS_PCT), 100),
             li \in Round(current_price * (100 - TAKE_PROFIT_PCT), 100) }

(***************************************************************************)
(* What one invocation returns and does.                                   *)
(***************************************************************************)
\* the HTTP response; raised: the handler ended with an exception; skip: the
\* guardrail reason the body names ("" when it names none)
Resp(code, msg, succ, ostat, err, dry) ==
    [raised |-> FALSE, status |-> code, message |-> msg, success |-> succ,
     order_status |-> ostat, error |-> err, dry_run |-> dry, skip |-> ""]

RaisedResp ==
    [raised |-> TRUE, status |-> 0, message |-> "", success |-> "absent",
     order_status |-> "absent", error |-> FALSE, dry_run |-> "absent", skip |-> ""]

SkipResp(code, msg) == Resp(code, msg, "absent", "absent", FALSE, "absent")

\* the answer to a guardrail rejection: TA puts the check's result under
\* "skip", DEP answers 'Skipped: <reason>', DDB has one message per reason
GuardrailSkip(code, msg, reason) == [SkipResp(code, msg) EXCEPT !.skip = reason]

\* st: the guardrail store after the invocation; log: the execution-log
\* writes it made; admitted: it passed every gate and went on to the order;
\* reason: why not; attempts: order-placement requests sent to the broker
Out(resp, st, log, admitted, reason, attempts, orderOk) ==
    [resp |-> resp, st |-> st, log |-> log, admitted |-> admitted,
     reason |-> reason, attempts |-> attempts, orderOk |-> orderOk]

(***************************************************************************)
(* TA: Guardrails.check_and_record and lambda_handler                      *)
(***************************************************************************)
TaStore0 ==
    [de |-> 0, sy |-> [s \in Symbols |-> 0], day |-> [d \in Days |-> 0]]

\* aws_utils.py:118   now_ts - last_ts < self.debounce_seconds
TaDebounceHit(last_ts, now_ts) == now_ts - last_ts < DEBOUNCE_SECONDS

\* a cooldown that ends one second early
TaIntervalHitEarly(last_symbol_ts, now_ts) ==
    now_ts - last_symbol_ts < MIN_INTERVAL_SAME_SYMBOL_SECONDS - 1

\* aws_utils.py:125   now_ts - last_symbol_ts < self.min_interval_symbol
TaIntervalHit(last_symbol_ts, now_ts) ==
    now_ts - last_symbol_ts < MIN_INTERVAL_SAME_SYMBOL_SECONDS

\* a cap test that lets the counter pass the cap
TaCapHitAbove(count) == count > MAX_TRADES_PER_DAY

\* aws_utils.py:131   int(day.get("count", 0)) >= self.max_trades_day
TaCapHit(count) == count >= MAX_TRADES_PER_DAY

\* The one debounce.json is shared by every symbol and event; a missing
\* object reads as last_ts 0 / count 0.  The three writes happen only on
\* the allowed path.
Guardrails_check_and_record(st, symbol, now_ts) ==
    IF TaDebounceHit(st.de, now_ts)
    THEN [allowed |-> FALSE, reason |-> "debounce", st |-> st]
    ELSE IF TaIntervalHit(st.sy[symbol], now_ts)
    THEN [allowed |-> FALSE, reason |-> "symbol_interval", st |-> st]
    ELSE IF TaCapHit(st.day[Day(now_ts)])
    THEN [allowed |-> FALSE, reason |-> "daily_cap", st |-> st]
    ELSE [allowed |-> TRUE, reason |-> "",
          st |-> [de |-> now_ts,
                  sy |-> [st.sy EXCEPT ![symbol] = now_ts],
                  day |-> [st.day EXCEPT ![Day(now_ts)] = @ + 1]]]

TaLogKey(p) == <<"webhook-trades", "noid", p.symbol>>

\* lambda_handler of TA.  up = FALSE: every S3 call of the invocation fails;
\* s3_read_json re-raises anything but NoSuchKey and nothing catches it.
TaHandler(st, p, up, script, auto, now_ts) ==
    IF ~IsValid(p)
    THEN Out(SkipResp(400, "Invalid input"), st, <<>>, FALSE, "invalid", 0, "none")
    ELSE IF ~up
    THEN Out(RaisedResp, st, <<>>, FALSE, "store_error", 0, "none")
    ELSE LET g == Guardrails_check_and_record(st, p.symbol, now_ts) IN
         IF ~g.allowed
         THEN Out(GuardrailSkip(200, "Guardrails skipped", g.reason), g.st,
                  << <<TaLogKey(p), <<"skipped", g.reason>> >> >>,
                  FALSE, g.reason, 0, "none")
         ELSE IF auto
         THEN LET o == KitePlaceOrder(script) IN
              Out(Resp(200, "ok", "absent", "absent", o.error, "false"), g.st,
                  << <<TaLogKey(p), <<"result", IF o.error THEN "error" ELSE o.status>> >> >>,
                  TRUE, "", o.attempts, IF o.has_id THEN "ok" ELSE "failed")
         ELSE Out(Resp(200, "dry-run: order not placed", "absent", "absent", FALSE, "true"),
                  g.st,
                  << <<TaLogKey(p), <<"result", "dry-run">> >> >>,
                  TRUE, "", 0, "none")

(***************************************************************************)
(* DEP: check_debounce_and_limits, record_trade_success, lambda_handler    *)
(***************************************************************************)
\* marker: LastModified of state/recent/<hash>.marker for the hashes that a
\* later event can have again; orphans: how many markers sit under hashes of
\* generated timestamps (their LastModified is never read)
DepStore0 ==
    [marker |-> <<>>, orphans |-> 0,
     sym |-> [s \in Symbols |-> 0], daily |-> [d \in Days |-> 0]]

\* _event_hash(webhook_data): sha256 of the WHOLE parsed event, its
\* 'timestamp' included.  A body without a timestamp got
\* datetime.utcnow().isoformat() at parse time, a value no other invocation
\* gets: its marker is written under a key that is never looked up again.
EventHash(p) ==
    <<p.symbol, p.action, p.qty, p.source, IF p.hasTs THEN "T0" ELSE "utcnow">>

\* _s3_object_exists(recent_key) for the hash of THIS invocation's event
MarkerExists(st, p) == p.hasTs /\ EventHash(p) \in DOMAIN st.marker

\* a debounce window that closes one second early
DepDebounceHitEarly(last_mod, t) == t - last_mod < DEBOUNCE_SECONDS - 1

\* webhook-trading.py:167   age < DEBOUNCE_SECONDS
DepDebounceHit(last_mod, t) == t - last_mod < DEBOUNCE_SECONDS

\* webhook-trading.py:178-183   last_ts present and age < MIN_INTERVAL_...
DepIntervalHit(last_trade_ts, t) ==
    last_trade_ts # 0 /\ t - last_trade_ts < MIN_INTERVAL_SAME_SYMBOL_SECONDS

\* webhook-trading.py:190   int(daily.get('total', 0)) >= MAX_TRADES_PER_DAY
DepCapHit(total) == total >= MAX_TRADES_PER_DAY

\* a check that rejects when the store cannot be read
CheckFailsClosed(st, p, up, t) ==
    LET h == EventHash(p) IN
    IF ~up THEN [ok |-> FALSE, reason |-> "store_error", st |-> st]
    ELSE IF MarkerExists(st, p) /\ DepDebounceHit(st.marker[h], t)
    THEN [ok |-> FALSE, reason |-> "debounce", st |-> st]
    ELSE LET st1 == IF p.hasTs
                    THEN [st EXCEPT !.marker = Put(st.marker, h, t)]
                    ELSE [st EXCEPT !.orphans = @ + 1] IN
         IF DepIntervalHit(st.sym[p.symbol], t)
         THEN [ok |-> FALSE, reason |-> "symbol_interval", st |-> st1]
         ELSE IF DepCapHit(st.daily[Day(t)])
         THEN [ok |-> FALSE, reason |-> "daily_cap", st |-> st1]
         ELSE [ok |-> TRUE, reason |-> "", st |-> st1]

\* Returns (ok, reason) and the store: the marker is touched as soon as the
\* debounce test passes, also when a later test rejects.  With the store
\* down head_object/put_object raise inside the try ("continue") and
\* _s3_read_json returns None: every test passes.
check_debounce_and_limits(st, p, up, t) ==
    LET h == EventHash(p) IN
    IF ~up THEN [ok |-> TRUE, reason |-> "", st |-> st]
    ELSE IF MarkerExists(st, p) /\ DepDebounceHit(st.marker[h], t)
    THEN [ok |-> FALSE, reason |-> "debounce", st |-> st]
    ELSE LET st1 == IF p.hasTs
                    THEN [st EXCEPT !.marker = Put(st.marker, h, t)]
                    ELSE [st EXCEPT !.orphans = @ + 1] IN
         IF DepIntervalHit(st.sym[p.symbol], t)
         THEN [ok |-> FALSE, reason |-> "symbol_interval", st |-> st1]
         ELSE IF DepCapHit(st.daily[Day(t)])
         THEN [ok |-> FALSE, reason |-> "daily_cap", st |-> st1]
         ELSE [ok |-> TRUE, reason |-> "", st |-> st1]

\* _s3_write_json swallows its errors: with the store down nothing changes
record_trade_success(st, p, up, t) ==
    IF ~up THEN st
    ELSE [st EXCEPT !.sym[p.symbol] = t, !.daily[Day(t)] = @ + 1]

\* save_webhook_log: one object per second of wall clock
WebhookLogKey(t) == <<"webhook-trades", t>>

WebhookLog(up, t, outcome) ==
    IF up THEN << <<WebhookLogKey(t), outcome>> >> ELSE <<>>

\* a broker failure that surfaces as a 502
TradeRespBadGateway(o) ==
    Resp(IF o.error THEN 502 ELSE 200, "Webhook processed successfully",
         IF o.has_id THEN "true" ELSE "false", o.status, o.error, "absent")

TradeResp(o) ==
    Resp(200, "Webhook processed successfully",
         IF o.has_id THEN "true" ELSE "false", o.status, o.error, "absent")

\* lambda_handler of DEP (event.dry_run absent)
DepHandler(st, p, up, script, auto, t) ==
    IF p.symbol = ""
    THEN Out(SkipResp(200, "No symbol provided, skipping trade"), st, <<>>, FALSE, "invalid", 0, "none")
    ELSE IF p.action \notin {"BUY", "SELL"}
    THEN Out(SkipResp(200, "No valid action, skipping trade"), st, <<>>, FALSE, "invalid", 0, "none")
    ELSE IF p.qty <= 0
    THEN Out(SkipResp(200, "Invalid quantity, skipping trade"), st, <<>>, FALSE, "invalid", 0, "none")
    ELSE LET g == check_debounce_and_limits(st, p, up, t) IN
         IF ~g.ok
         THEN Out(GuardrailSkip(200, "Skipped", g.reason), g.st,
                  WebhookLog(up, t, <<"skipped", g.reason>>), FALSE, g.reason, 0, "none")
         ELSE LET o == IF auto THEN DepPlaceOrder(script)
                       ELSE OrderResult(TRUE, "simulated", FALSE, 0) IN
              Out(TradeResp(o),
                  IF o.has_id THEN record_trade_success(g.st, p, up, t) ELSE g.st,
                  WebhookLog(up, t, <<"trade", IF o.error THEN "error" ELSE o.status>>),
                  TRUE, "", o.attempts,
                  IF ~auto THEN "none" ELSE IF o.has_id THEN "ok" ELSE "failed")

(***************************************************************************)
(* DDB: lambda_handler with the idempotency table                          *)
(***************************************************************************)
DdbStore0 == [event |-> {}, sym |-> <<>>, daily |-> <<>>, debounce |-> <<>>]

\* webhook-trading.py:373   today_count >= MAX_TRADES_PER_DAY
DdbCapHit(today_count) == today_count >= MAX_TRADES_PER_DAY

\* a cooldown that lasts two seconds longer
DdbIntervalHitLate(st, symbol, t) ==
    symbol \in DOMAIN st.sym /\ t - st.sym[symbol] < MIN_INTERVAL_SAME_SYMBOL_SECONDS + 2

\* webhook-trading.py:380-382   item present and now - last_ts < MIN_INTERVAL_SAME_SYMBOL
DdbIntervalHit(st, symbol, t) ==
    symbol \in DOMAIN st.sym /\ t - st.sym[symbol] < MIN_INTERVAL_SAME_SYMBOL_SECONDS

\* a counter that lets the signal through one delivery early
DdbDebounceWaitShort(debounce_count) == debounce_count < DEBOUNCE_COUNT - 1

\* webhook-trading.py:394   debounce_count < DEBOUNCE_COUNT
DdbDebounceWait(debounce_count) == debounce_count < DEBOUNCE_COUNT

\* The block "Idempotency check in DynamoDB": stable dedupe, per-symbol
\* daily limit, per-symbol interval, then the debounce counter, which is
\* incremented and written before it is compared.  With the table down the
\* first get_item raises, the except logs, and the handler goes on.
DdbIdempotencyCheck(st, p, up, t) ==
    LET key == StableKey(p)
        count == Get(st.debounce, key, 0) + 1
        st1 == [st EXCEPT !.debounce = Put(st.debounce, key, count)]
    IN
    IF ~up THEN [ok |-> TRUE, reason |-> "", msg |-> "", logged |-> FALSE, st |-> st]
    ELSE IF key \in st.event
    THEN [ok |-> FALSE, reason |-> "duplicate", msg |-> "Duplicate event - skipped",
          logged |-> FALSE, st |-> st]
    ELSE IF DdbCapHit(Get(st.daily, <<p.symbol, Day(t)>>, 0))
    THEN [ok |-> FALSE, reason |-> "daily_cap", msg |-> "Max trades per day reached",
          logged |-> TRUE, st |-> st]
    ELSE IF DdbIntervalHit(st, p.symbol, t)
    THEN [ok |-> FALSE, reason |-> "symbol_interval", msg |-> "Min interval not passed",
          logged |-> TRUE, st |-> st]
    ELSE IF DdbDebounceWait(count)
    THEN [ok |-> FALSE, reason |-> "debounce_wait",
          msg |-> "Debounce - waiting for repeated signal", logged |-> TRUE, st |-> st1]
    ELSE [ok |-> TRUE, reason |-> "", msg |-> "", logged |-> FALSE, st |-> st1]

\* an attempt that leaves the table as it found it
DdbRecordNothing(st, p, up, t) == st

\* "Record idempotency entry": three put_item in one try, after the order
\* attempt whatever its result
DdbRecord(st, p, up, t) ==
    IF ~up THEN st
    ELSE [st EXCEPT !.event = @ \cup {StableKey(p)},
                    !.sym = Put(@, p.symbol, t),
                    !.daily = Put(@, <<p.symbol, Day(t)>>,
                                  Get(@, <<p.symbol, Day(t)>>, 0) + 1)]

\* lambda_handler of DDB for a request without secret headers and with
\* MIN_CONFIDENCE at its default 0.0: the confidence filter passes, and so
\* does the buying-power check (the parsed event has no price).
DdbHandler(st, p, up, script, auto, t) ==
    LET g == DdbIdempotencyCheck(st, p, up, t) IN
    IF ~g.ok
    THEN Out(GuardrailSkip(200, g.msg, g.reason), g.st,
             IF g.logged THEN WebhookLog(up, t, <<"skipped", g.reason>>) ELSE <<>>,
             FALSE, g.reason, 0, "none")
    ELSE IF p.symbol = ""
    THEN Out(SkipResp(200, "No symbol provided, skipping trade"), g.st, <<>>, FALSE, "invalid", 0, "none")
    ELSE IF p.action \notin {"BUY", "SELL"}
    THEN Out(SkipResp(200, "No valid action, skipping trade"), g.st, <<>>, FALSE, "invalid", 0, "none")
    ELSE IF p.qty <= 0
    THEN Out(SkipResp(200, "Invalid quantity, skipping trade"), g.st, <<>>, FALSE, "invalid", 0, "none")
    ELSE LET o == DdbPlaceOrder(script, auto) IN
         Out(TradeResp(o), DdbRecord(g.st, p, up, t),
             WebhookLog(up, t, <<"trade", IF o.error THEN "error" ELSE o.status>>),
             TRUE, "", o.attempts,
             IF ~auto THEN "none" ELSE IF o.has_id THEN "ok" ELSE "failed")

(***************************************************************************)
(* Secret headers.  A request carries X-Finnhub-Secret and X-Signature, or *)
(* not; each is taken by what the comparison in the handler makes of it.   *)
(***************************************************************************)
HeaderValues == {"absent", "match", "mismatch"}

Headers == [finnhub : HeaderValues, sig : HeaderValues]

\* a request without headers, and no WEBHOOK_HMAC_SECRET
AuthNone == [hmacSecret |-> FALSE, finnhub |-> "absent", sig |-> "absent"]

\* headers.get('X-Finnhub-Secret') == FINNHUB_SECRET: the handlers log
\* "Finnhub webhook authenticated" when it holds and do nothing else with it
FinnhubAuthenticated(hdr) == hdr.finnhub = "match"

\* DDB: HMAC_SECRET and 'X-Signature' in headers and not compare_digest(...)
DdbSignatureRejected(hmacSecret, hdr) ==
    hmacSecret /\ hdr.sig # "absent" /\ hdr.sig # "match"

\* lambda_handler of DDB from its first line: the Finnhub comparison, the
\* HMAC verification, then the rest of the handler
DdbRequest(st, p, hdr, hmacSecret, up, script, auto, t) ==
    LET logged_authenticated == FinnhubAuthenticated(hdr) IN
    IF DdbSignatureRejected(hmacSecret, hdr)
    THEN Out(SkipResp(403, "Invalid signature"), st, <<>>, FALSE, "forbidden", 0, "none")
    ELSE DdbHandler(st, p, up, script, auto, t)

\* lambda_handler of DEP from its first line: the Finnhub comparison, then
\* the rest of the handler; there is no signature check
DepRequest(st, p, hdr, up, script, auto, t) ==
    LET logged_authenticated == FinnhubAuthenticated(hdr) IN
    DepHandler(st, p, up, script, auto, t)

(***************************************************************************)
(* The end of an invocation when the execution-log put_object or the SES   *)
(* send_email fails although the guardrail objects could be read and       *)
(* written.  out is what the handler does when both go through.            *)
(***************************************************************************)
IoFine == [logOk |-> TRUE, mailOk |-> TRUE]

\* TA: s3_write_json and send_email have no try around them, in aws_utils
\* or in lambda_handler: an exception of put_object or of send_email leaves
\* the handler.  The e-mail is sent on the order path only, after the log.
TaReport(out, logOk, mailOk) ==
    IF out.log # <<>> /\ ~logOk
    THEN [out EXCEPT !.resp = RaisedResp, !.log = <<>>]
    ELSE IF out.admitted /\ ~mailOk
    THEN [out EXCEPT !.resp = RaisedResp]
    ELSE out

\* DEP and DDB: save_webhook_log and send_webhook_email catch every
\* exception and print it
AlpacaReport(out, logOk, mailOk) ==
    [out EXCEPT !.log = IF logOk THEN @ ELSE <<>>]

(***************************************************************************)
(* The guardrail code call by call.  An invocation is a sequence of calls  *)
(* to the state store (and one order placement); two invocations of the    *)
(* same function that overlap interleave these calls.  Each Step operator  *)
(* takes one invocation (pc: the call it makes next, rd: the counter it    *)
(* read, allowed: the guardrail check passed, called: an order request     *)
(* went to the broker) and the store, and makes that one call.             *)
(***************************************************************************)
\* the event both invocations carry: the same body, with its own timestamp
RaceEvent == Payload("AAPL", "BUY", 1, TRUE)

\* rd: the counter as this invocation read it; recorded: it has written the
\* daily counter
RaceProc0 ==
    [pc |-> "start", rd |-> 0, allowed |-> FALSE, called |-> FALSE, recorded |-> FALSE]

RaceIdle == [i \in 1 .. 2 |-> RaceProc0]

RaceRejected(pr) == [pr EXCEPT !.pc = "done"]

\* TA: check_and_record, then place_order in lambda_handler
TaStep(pr, st, auto, t) ==
    LET sym == RaceEvent.symbol IN
    CASE pr.pc = "start" ->            \* s3_read_json(de_key)
           [pr |-> IF TaDebounceHit(st.de, t) THEN RaceRejected(pr)
                   ELSE [pr EXCEPT !.pc = "read_symbol"],
            st |-> st]
      [] pr.pc = "read_symbol" ->      \* s3_read_json(sy_key)
           [pr |-> IF TaIntervalHit(st.sy[sym], t) THEN RaceRejected(pr)
                   ELSE [pr EXCEPT !.pc = "read_day"],
            st |-> st]
      [] pr.pc = "read_day" ->         \* s3_read_json(day_key)
           [pr |-> IF TaCapHit(st.day[Day(t)]) THEN RaceRejected(pr)
                   ELSE [pr EXCEPT !.pc = "write_debounce", !.rd = st.day[Day(t)]],
            st |-> st]
      [] pr.pc = "write_debounce" ->   \* s3_write_json(de_key, de)
           [pr |-> [pr EXCEPT !.pc = "write_symbol"],
            st |-> [st EXCEPT !.de = t]]
      [] pr.pc = "write_symbol" ->     \* s3_write_json(sy_key, sy)
           [pr |-> [pr EXCEPT !.pc = "write_day"],
            st |-> [st EXCEPT !.sy[sym] = t]]
      [] pr.pc = "write_day" ->        \* s3_write_json(day_key, day); allowed
           [pr |-> [pr EXCEPT !.pc = IF auto THEN "order" ELSE "done",
                              !.allowed = TRUE, !.recorded = TRUE],
            st |-> [st EXCEPT !.day[Day(t)] = pr.rd + 1]]
      [] pr.pc = "order" ->            \* place_order(symbol, side, qty, ...)
           [pr |-> [pr EXCEPT !.pc = "done", !.called = TRUE],
            st |-> st]

\* DEP: check_debounce_and_limits, place_order, record_trade_success.
\* accepted: the broker accepts the order.
DepStep(pr, st, auto, accepted, t) ==
    LET sym == RaceEvent.symbol
        h == EventHash(RaceEvent)
    IN
    CASE pr.pc = "start" ->            \* _s3_object_exists(recent_key)
           [pr |-> [pr EXCEPT !.pc = IF MarkerExists(st, RaceEvent)
                                     THEN "head" ELSE "touch"],
            st |-> st]
      [] pr.pc = "head" ->             \* head_object(...)['LastModified']
           [pr |-> IF DepDebounceHit(st.marker[h], t) THEN RaceRejected(pr)
                   ELSE [pr EXCEPT !.pc = "touch"],
            st |-> st]
      [] pr.pc = "touch" ->            \* put_object(recent_key)
           [pr |-> [pr EXCEPT !.pc = "read_symbol"],
            st |-> [st EXCEPT !.marker = Put(st.marker, h, t)]]
      [] pr.pc = "read_symbol" ->      \* _s3_read_json(sym_key)
           [pr |-> IF DepIntervalHit(st.sym[sym], t) THEN RaceRejected(pr)
                   ELSE [pr EXCEPT !.pc = "read_day"],
            st |-> st]
      [] pr.pc = "read_day" ->         \* _s3_read_json(day_key); return True
           [pr |-> IF DepCapHit(st.daily[Day(t)]) THEN RaceRejected(pr)
                   ELSE [pr EXCEPT !.pc = "order", !.allowed = TRUE],
            st |-> st]
      [] pr.pc = "order" ->            \* place_order, or the simulated order
           [pr |-> [pr EXCEPT !.pc = IF ~auto \/ accepted
                                     THEN "record_symbol" ELSE "done",
                              !.called = auto],
            st |-> st]
      [] pr.pc = "record_symbol" ->    \* _s3_write_json(sym_key, ...)
           [pr |-> [pr EXCEPT !.pc = "record_read_day"],
            st |-> [st EXCEPT !.sym[sym] = t]]
      [] pr.pc = "record_read_day" ->  \* current = _s3_read_json(day_key)
           [pr |-> [pr EXCEPT !.pc = "record_write_day", !.rd = st.daily[Day(t)]],
            st |-> st]
      [] pr.pc = "record_write_day" -> \* _s3_write_json(day_key, current)
           [pr |-> [pr EXCEPT !.pc = "done", !.recorded = TRUE],
            st |-> [st EXCEPT !.daily[Day(t)] = pr.rd + 1]]

\* DDB: the idempotency block, place_order, "Record idempotency entry"
DdbStep(pr, st, auto, t) ==
    LET sym == RaceEvent.symbol
        key == StableKey(RaceEvent)
        dkey == <<sym, Day(t)>>
    IN
    CASE pr.pc = "start" ->            \* get_item(event_id)
           [pr |-> IF key \in st.event THEN RaceRejected(pr)
                   ELSE [pr EXCEPT !.pc = "get_daily"],
            st |-> st]
      [] pr.pc = "get_daily" ->        \* get_item(daily_counter_key)
           [pr |-> IF DdbCapHit(Get(st.daily, dkey, 0)) THEN RaceRejected(pr)
                   ELSE [pr EXCEPT !.pc = "get_symbol"],
            st |-> st]
      [] pr.pc = "get_symbol" ->       \* get_item(symbol_key)
           [pr |-> IF DdbIntervalHit(st, sym, t) THEN RaceRejected(pr)
                   ELSE [pr EXCEPT !.pc = "get_debounce"],
            st |-> st]
      [] pr.pc = "get_debounce" ->     \* get_item(debounce_key); count += 1
           [pr |-> [pr EXCEPT !.pc = "put_debounce",
                              !.rd = Get(st.debounce, key, 0) + 1],
            st |-> st]
      [] pr.pc = "put_debounce" ->     \* put_item(debounce_key), then the test
           [pr |-> IF DdbDebounceWait(pr.rd) THEN RaceRejected(pr)
                   ELSE [pr EXCEPT !.pc = "order", !.allowed = TRUE],
            st |-> [st EXCEPT !.debounce = Put(st.debounce, key, pr.rd)]]
      [] pr.pc = "order" ->            \* place_order (simulated without AUTO_EXECUTE)
           [pr |-> [pr EXCEPT !.pc = "put_event", !.called = auto],
            st |-> st]
      [] pr.pc = "put_event" ->        \* put_item(event_id)
           [pr |-> [pr EXCEPT !.pc = "put_symbol"],
            st |-> [st EXCEPT !.event = @ \cup {key}]]
      [] pr.pc = "put_symbol" ->       \* put_item(symbol_key)
           [pr |-> [pr EXCEPT !.pc = "get_daily_again"],
            st |-> [st EXCEPT !.sym = Put(@, sym, t)]]
      [] pr.pc = "get_daily_again" ->  \* get_item(daily_counter_key)
           [pr |-> [pr EXCEPT !.pc = "put_daily", !.rd = Get(st.daily, dkey, 0)],
            st |-> st]
      [] pr.pc = "put_daily" ->        \* put_item(daily_counter_key, count + 1)
           [pr |-> [pr EXCEPT !.pc = "done", !.recorded = TRUE],
            st |-> [st EXCEPT !.daily = Put(@, dkey, pr.rd + 1)]]

(***************************************************************************)
(* History of admissions, kept for the properties.  It is written from     *)
(* what each invocation answered and did, never from the guardrail store,  *)
(* and only for invocations that found the state store reachable.          *)
(*   call[k]  when an order request for stable key k last went to the broker *)
(*   adm[p]   when payload p was last admitted                              *)
(*   rec[s]   when a trade for s was last admitted and meant to be recorded *)
(*   dayCnt   per day and symbol, the admissions meant to be recorded       *)
(***************************************************************************)
StableKeys == {StableKey(p) : p \in ValidPayloads}

Gh0 ==
    [call |-> [k \in StableKeys |-> 0],
     adm |-> [p \in ValidPayloads |-> 0],
     rec |-> [s \in Symbols |-> 0],
     dayCnt |-> [d \in Days |-> [s \in Symbols |-> 0]]]

\* an admission the handler is meant to record: every one in TA and DDB,
\* in DEP those whose order was accepted or simulated
Counted(i, out) == out.admitted /\ (i = "DEP" => out.orderOk # "failed")

GhAfter(g, i, p, up, out, t) ==
    IF ~up \/ ~out.admitted THEN g
    ELSE [call |-> IF out.attempts > 0
                   THEN [g.call EXCEPT ![StableKey(p)] = t] ELSE g.call,
          adm |-> [g.adm EXCEPT ![p] = t],
          rec |-> IF Counted(i, out) THEN [g.rec EXCEPT ![p.symbol] = t] ELSE g.rec,
          dayCnt |-> IF Counted(i, out)
                     THEN [g.dayCnt EXCEPT ![Day(t)][p.symbol] = @ + 1]
                     ELSE g.dayCnt]

MaxOver(S) == IF S = {} THEN 0 ELSE CHOOSE m \in S : \A x \in S : x <= m

\* the invocation that has just returned, with what the history said before it
CurOf(g, i, p, up, script, out, t) ==
    [done |-> TRUE, p |-> p, up |-> up,
     script |-> SubSeq(script, 1, out.attempts),
     resp |-> out.resp, admitted |-> out.admitted, reason |-> out.reason,
     attempts |-> out.attempts, orderOk |-> out.orderOk,
     logged |-> out.log # <<>>, log |-> out.log,
     prevCall |-> IF IsValid(p) THEN g.call[StableKey(p)] ELSE 0,
     prevAdmEv |-> IF IsValid(p) /\ (i # "DEP" \/ p.hasTs) THEN g.adm[p] ELSE 0,
     prevAdmSym |-> MaxOver({g.adm[q] : q \in {r \in ValidPayloads : r.symbol = p.symbol}}),
     prevAdmAny |-> MaxOver({g.adm[q] : q \in ValidPayloads}),
     prevRec |-> IF p.symbol \in Symbols THEN g.rec[p.symbol] ELSE 0]

\* no invocation has returned in the last step
Cur0 ==
    [done |-> FALSE, p |-> Payload("", "", 0, FALSE), up |-> TRUE, script |-> <<>>,
     resp |-> SkipResp(0, ""), admitted |-> FALSE, reason |-> "",
     attempts |-> 0, orderOk |-> "none", logged |-> FALSE, log |-> <<>>,
     prevCall |-> 0, prevAdmEv |-> 0, prevAdmSym |-> 0, prevAdmAny |-> 0, prevRec |-> 0]

\* put_object of the log objects: an existing key is overwritten
WriteLog(log, writes) == log \cup {writes[i][1] : i \in DOMAIN writes}

(***************************************************************************)
(* Event Publisher: publish_analysis_event of the fetch stage and          *)
(* _put_events_with_retries of the analysis stage, one step per call to    *)
(* EventBridge or Lambda, and lambda_handler of the fetch stage around it. *)
(***************************************************************************)
max_attempts == 3

\* symbols of one backfill request
NSymbols == 2

\* fallbackEntry: a fallback entry is at hand (fetch builds its own;
\* analysis takes fallback_minimal_entry, which one of its two callers
\* omits).  lambdaEnv: the environment variable naming the function to
\* invoke directly is given and set.
PubConfigs ==
    { [variant |-> v, fallbackEntry |-> f, lambdaEnv |-> l] :
        v \in {"fetch", "analysis"}, f \in BOOLEAN, l \in BOOLEAN }
    \ { [variant |-> "fetch", fallbackEntry |-> FALSE, lambdaEnv |-> l] : l \in BOOLEAN }

\* what put_events can do: answer with FailedEntryCount = 0, answer with
\* failed entries, or raise
PutEventsOutcomes == {"ack", "failed", "exc"}

\* what lambda.invoke(InvocationType='Event') can do: return, or raise
InvokeOutcomes == {"ack", "exc"}

\* any answer of put_events taken for an acknowledgement
AcknowledgedAnyAnswer(o) == o \in {"ack", "failed"}

\* response.get('FailedEntryCount', 1) == 0
Acknowledged(o) == o = "ack"

\* trace: the calls made so far, <<tier, outcome>> each; result: "none"
\* while running, then "true", "false" or "raised"
PubIdle == [pc |-> "idle", attempt |-> 0, trace |-> <<>>, result |-> "none"]

PubReturn(p, r) == [p EXCEPT !.pc = "done", !.result = r]

\* boto3.client('events') is built before the first try: its failure leaves
\* the function as an exception
PubEnter(p, clientOk) ==
    IF clientOk THEN [p EXCEPT !.pc = "primary", !.attempt = 1]
    ELSE PubReturn(p, "raised")

\* a loop that leaves for the fallback at the first attempt that fails
PubPrimaryNoRetry(p, o) ==
    LET q == [p EXCEPT !.trace = Append(@, <<"primary", o>>)] IN
    IF Acknowledged(o) THEN PubReturn(q, "true")
    ELSE [q EXCEPT !.pc = "fallback"]

\* one turn of "for attempt in range(1, max_attempts + 1)"
PubPrimary(p, o) ==
    LET q == [p EXCEPT !.trace = Append(@, <<"primary", o>>)] IN
    IF Acknowledged(o) THEN PubReturn(q, "true")
    ELSE IF p.attempt < max_attempts THEN [q EXCEPT !.attempt = @ + 1]
    ELSE [q EXCEPT !.pc = "fallback"]

\* a fallback publish whose acknowledgement does not end the run
PubFallbackFallsThrough(cfg, p, o) ==
    IF ~cfg.fallbackEntry THEN [p EXCEPT !.pc = "direct"]
    ELSE [p EXCEPT !.trace = Append(@, <<"fallback", o>>), !.pc = "direct"]

\* the fallback put_events, skipped when no fallback entry is at hand
PubFallback(cfg, p, o) ==
    IF ~cfg.fallbackEntry THEN [p EXCEPT !.pc = "direct"]
    ELSE LET q == [p EXCEPT !.trace = Append(@, <<"fallback", o>>)] IN
         IF Acknowledged(o) THEN PubReturn(q, "true")
         ELSE [q EXCEPT !.pc = "direct"]

\* the direct asynchronous invoke, skipped when no function is named
PubDirect(cfg, p, o) ==
    IF ~cfg.lambdaEnv THEN PubReturn(p, "false")
    ELSE LET q == [p EXCEPT !.trace = Append(@, <<"direct", o>>)] IN
         IF o = "ack" THEN PubReturn(q, "true") ELSE PubReturn(q, "false")

\* how the body of lambda_handler's try can end: every symbol stored, some
\* symbol failed (caught inside the loop), or an exception that reaches the
\* outer except (raised before the loop: nothing processed)
Backfills ==
    { [kind |-> "ok", processed |-> NSymbols, total |-> NSymbols] }
    \cup { [kind |-> "partial", processed |-> n, total |-> NSymbols] : n \in 0 .. (NSymbols - 1) }
    \cup { [kind |-> "critical", processed |-> 0, total |-> t] : t \in {0, NSymbols} }

backfill_success(b) == b.kind = "ok"

\* a response whose status follows the publish
FetchResponseByPublish(success, processed, total, event_published) ==
    [raised |-> FALSE,
     statusCode |-> IF success /\ event_published THEN 200 ELSE 500,
     message |-> IF success THEN "Backfill completed" ELSE "Backfill failed",
     symbols_processed |-> processed,
     total_symbols |-> total,
     analysis_triggered |-> event_published]

\* the dict lambda_handler returns
FetchResponse(success, processed, total, event_published) ==
    [raised |-> FALSE,
     statusCode |-> IF success THEN 200 ELSE 500,
     message |-> IF success THEN "Backfill completed" ELSE "Backfill failed",
     symbols_processed |-> processed,
     total_symbols |-> total,
     analysis_triggered |-> event_published]

FhIdle ==
    [pc |-> "idle", backfill |-> [kind |-> "ok", processed |-> 0, total |-> 0],
     publishCalls |-> 0, notified |-> FALSE,
     resp |-> FetchResponse(TRUE, 0, 0, FALSE)]

(***************************************************************************)
(* Actions                                                                 *)
(***************************************************************************)
PublisherIdle ==
    /\ pubCfg = [variant |-> "fetch", fallbackEntry |-> TRUE, lambdaEnv |-> FALSE]
    /\ pub = PubIdle
    /\ fh = FhIdle

Init ==
    /\ PublisherIdle
    /\ impl \in Impls
    /\ autoExecute \in BOOLEAN
    /\ now = Epoch
    /\ nDeliv = 0
    /\ s3ta = TaStore0
    /\ s3dep = DepStore0
    /\ ddb = DdbStore0
    /\ execLog = {}
    /\ cur = Cur0
    /\ gh = Gh0
    /\ race = RaceIdle
    /\ auth = AuthNone
    /\ io = IoFine
    /\ call = NoCall

\* what every invocation leaves behind besides its guardrail store
Invoked(p, up, script, out) ==
    /\ nDeliv < MaxDeliveries
    /\ execLog' = WriteLog(execLog, out.log)
    /\ cur' = CurOf(gh, impl, p, up, script, out, now)
    /\ gh' = GhAfter(gh, impl, p, up, out, now)
    /\ nDeliv' = nDeliv + 1
    /\ UNCHANGED <<impl, autoExecute, now, race, auth, io, call>>
    /\ UNCHANGED pubVars

DeliverTA(p, up, script) ==
    /\ impl = "TA"
    /\ LET out == TaHandler(s3ta, p, up, script, autoExecute, now) IN
       /\ s3ta' = out.st
       /\ Invoked(p, up, script, out)
    /\ UNCHANGED <<s3dep, ddb>>

DeliverDEP(p, up, script) ==
    /\ impl = "DEP"
    /\ LET out == DepHandler(s3dep, p, up, script, autoExecute, now) IN
       /\ s3dep' = out.st
       /\ Invoked(p, up, script, out)
    /\ UNCHANGED <<s3ta, ddb>>

DeliverDDB(p, up, script) ==
    /\ impl = "DDB"
    /\ LET out == DdbHandler(ddb, p, up, script, autoExecute, now) IN
       /\ ddb' = out.st
       /\ Invoked(p, up, script, out)
    /\ UNCHANGED <<s3ta, s3dep>>

\* a second passes; cur describes only an invocation that has just returned
Tick ==
    /\ now < Epoch + MaxTicks
    /\ now' = now + 1
    /\ cur' = Cur0
    /\ UNCHANGED <<impl, autoExecute, nDeliv, s3ta, s3dep, ddb, execLog, gh,
                    race, auth, io, call>>
    /\ UNCHANGED pubVars

\* the broker's answers matter only to an invocation that places an order
ScriptsFor(out) == IF out.attempts > 0 THEN BrokerScripts ELSE {<<"ok">>}

Next ==
    \/ /\ impl = "TA"
       /\ nDeliv < MaxDeliveries
       /\ \E p \in PayloadsOf("TA") \cup InvalidPayloads, up \in BOOLEAN :
             \E script \in ScriptsFor(TaHandler(s3ta, p, up, <<"ok">>, autoExecute, now)) :
                DeliverTA(p, up, script)
    \/ /\ impl = "DEP"
       /\ nDeliv < MaxDeliveries
       /\ \E p \in PayloadsOf("DEP") \cup InvalidPayloads, up \in BOOLEAN :
             \E script \in ScriptsFor(DepHandler(s3dep, p, up, <<"ok">>, autoExecute, now)) :
                DeliverDEP(p, up, script)
    \/ /\ impl = "DDB"
       /\ nDeliv < MaxDeliveries
       /\ \E p \in PayloadsOf("DDB") \cup InvalidPayloads, up \in BOOLEAN :
             \E script \in ScriptsFor(DdbHandler(ddb, p, up, <<"ok">>, autoExecute, now)) :
                DeliverDDB(p, up, script)
    \/ Tick

Spec == Init /\ [][Next]_vars

(***************************************************************************)
(* The publisher on its own: PubSpec runs one stage's publish calls.       *)
(***************************************************************************)
WebhookIdle ==
    /\ impl = "TA"
    /\ autoExecute = FALSE
    /\ now = Epoch
    /\ nDeliv = 0
    /\ s3ta = TaStore0
    /\ s3dep = DepStore0
    /\ ddb = DdbStore0
    /\ execLog = {}
    /\ cur = Cur0
    /\ gh = Gh0
    /\ race = RaceIdle
    /\ auth = AuthNone
    /\ io = IoFine
    /\ call = NoCall

PubInit ==
    /\ WebhookIdle
    /\ pubCfg \in PubConfigs
    /\ pub = PubIdle
    /\ fh = FhIdle

\* fetch lambda_handler, lines 20-92: the try block with its except
FetchBackfill(b) ==
    /\ pubCfg.variant = "fetch"
    /\ fh.pc = "idle"
    /\ fh' = [FhIdle EXCEPT !.pc = "finally", !.backfill = b]
    /\ pub' = PubIdle
    /\ UNCHANGED <<pubCfg, whVars>>

\* fetch lambda_handler, lines 93-104: finally calls publish_analysis_event
FetchPublish(clientOk) ==
    /\ pubCfg.variant = "fetch"
    /\ fh.pc = "finally"
    /\ fh' = [fh EXCEPT !.pc = "publishing", !.publishCalls = @ + 1]
    /\ pub' = PubEnter(pub, clientOk)
    /\ UNCHANGED <<pubCfg, whVars>>

\* analysis: publish_exporter_event or publish_fallback_exporter_event
\* calls _put_events_with_retries
AnalysisPublish(clientOk) ==
    /\ pubCfg.variant = "analysis"
    /\ pub.pc = "idle"
    /\ pub' = PubEnter(pub, clientOk)
    /\ UNCHANGED <<pubCfg, fh, whVars>>

PrimaryAttempt(o) ==
    /\ pub.pc = "primary"
    /\ pub' = PubPrimary(pub, o)
    /\ UNCHANGED <<pubCfg, fh, whVars>>

FallbackPublish(o) ==
    /\ pub.pc = "fallback"
    /\ pub' = PubFallback(pubCfg, pub, o)
    /\ UNCHANGED <<pubCfg, fh, whVars>>

DirectInvoke(o) ==
    /\ pub.pc = "direct"
    /\ pub' = PubDirect(pubCfg, pub, o)
    /\ UNCHANGED <<pubCfg, fh, whVars>>

\* fetch lambda_handler, lines 105-126: the publish call is back (or its
\* exception is caught and notified), the response is built and returned
FetchReturn ==
    /\ pubCfg.variant = "fetch"
    /\ fh.pc = "publishing"
    /\ pub.pc = "done"
    /\ fh' = [fh EXCEPT !.pc = "returned",
                        !.notified = (pub.result = "raised"),
                        !.resp = FetchResponse(backfill_success(fh.backfill),
                                               fh.backfill.processed,
                                               fh.backfill.total,
                                               pub.result = "true")]
    /\ UNCHANGED <<pubCfg, pub, whVars>>

\* the next invocation of the stage
NextInvocation ==
    /\ pub.pc = "done"
    /\ pubCfg.variant = "fetch" => fh.pc = "returned"
    /\ pub' = PubIdle
    /\ fh' = FhIdle
    /\ UNCHANGED <<pubCfg, whVars>>

PubNext ==
    \/ \E b \in Backfills : FetchBackfill(b)
    \/ \E clientOk \in BOOLEAN : FetchPublish(clientOk)
    \/ \E clientOk \in BOOLEAN : AnalysisPublish(clientOk)
    \/ \E o \in PutEventsOutcomes : PrimaryAttempt(o)
    \/ \E o \in PutEventsOutcomes : FallbackPublish(o)
    \/ \E o \in InvokeOutcomes : DirectInvoke(o)
    \/ FetchReturn
    \/ NextInvocation

PubSpec == PubInit /\ [][PubNext]_vars

\* one call of the publish in progress: put_events and invoke return or
\* raise, and the function runs on to its return
PublishStep ==
    \/ \E o \in PutEventsOutcomes : PrimaryAttempt(o)
    \/ \E o \in PutEventsOutcomes : FallbackPublish(o)
    \/ \E o \in InvokeOutcomes : DirectInvoke(o)

\* the publisher with a publish in progress never left hanging
PubFairSpec == PubSpec /\ WF_vars(PublishStep)

(***************************************************************************)
(* Two overlapping invocations for the same event: RaceSpec interleaves    *)
(* their calls to the state store in every order.  The store starts empty  *)
(* or as one earlier delivery of the event (served alone, at Epoch) left   *)
(* it; the two invocations run in the second "now".                        *)
(***************************************************************************)
RaceInit ==
    /\ PublisherIdle
    /\ impl \in Impls
    /\ autoExecute \in BOOLEAN
    /\ now \in {Epoch, Epoch + MaxTicks}
    /\ nDeliv = 0
    /\ s3ta \in {TaStore0,
                 TaHandler(TaStore0, RaceEvent, TRUE, <<"ok">>, autoExecute, Epoch).st}
    /\ s3dep \in {DepStore0,
                  DepHandler(DepStore0, RaceEvent, TRUE, <<"ok">>, autoExecute, Epoch).st}
    /\ ddb \in {DdbStore0,
                DdbHandler(DdbStore0, RaceEvent, TRUE, <<"ok">>, autoExecute, Epoch).st}
    /\ (s3ta = TaStore0) = (s3dep = DepStore0)
    /\ (s3ta = TaStore0) = (ddb = DdbStore0)
    /\ execLog = {}
    /\ cur = Cur0
    /\ gh = Gh0
    /\ race = RaceIdle
    /\ auth = AuthNone
    /\ io = IoFine
    /\ call = NoCall

RaceFrame ==
    UNCHANGED <<impl, autoExecute, now, nDeliv, execLog, cur, gh, auth, io, call,
                pubVars>>

RaceTA(i) ==
    /\ impl = "TA" /\ race[i].pc # "done"
    /\ LET r == TaStep(race[i], s3ta, autoExecute, now) IN
       /\ race' = [race EXCEPT ![i] = r.pr]
       /\ s3ta' = r.st
    /\ UNCHANGED <<s3dep, ddb>>
    /\ RaceFrame

RaceDEP(i, accepted) ==
    /\ impl = "DEP" /\ race[i].pc # "done"
    /\ LET r == DepStep(race[i], s3dep, autoExecute, accepted, now) IN
       /\ race' = [race EXCEPT ![i] = r.pr]
       /\ s3dep' = r.st
    /\ UNCHANGED <<s3ta, ddb>>
    /\ RaceFrame

RaceDDB(i) ==
    /\ impl = "DDB" /\ race[i].pc # "done"
    /\ LET r == DdbStep(race[i], ddb, autoExecute, now) IN
       /\ race' = [race EXCEPT ![i] = r.pr]
       /\ ddb' = r.st
    /\ UNCHANGED <<s3ta, s3dep>>
    /\ RaceFrame

RaceNext ==
    \/ \E i \in 1 .. 2 : RaceTA(i)
    \/ \E i \in 1 .. 2, accepted \in BOOLEAN : RaceDEP(i, accepted)
    \/ \E i \in 1 .. 2 : RaceDDB(i)

RaceSpec == RaceInit /\ [][RaceNext]_vars

(***************************************************************************)
(* Requests with secret headers: AuthSpec delivers up to AuthDeliveries    *)
(* requests, each with its headers, to the DEP or the DDB handler.         *)
(***************************************************************************)
AuthDeliveries == 2

AuthInit ==
    /\ PublisherIdle
    /\ impl \in {"DEP", "DDB"}
    /\ autoExecute \in BOOLEAN
    /\ now = Epoch
    /\ nDeliv = 0
    /\ s3ta = TaStore0
    /\ s3dep = DepStore0
    /\ ddb = DdbStore0
    /\ execLog = {}
    /\ cur = Cur0
    /\ gh = Gh0
    /\ race = RaceIdle
    /\ auth \in {[AuthNone EXCEPT !.hmacSecret = b] : b \in BOOLEAN}
    /\ io = IoFine
    /\ call = NoCall

AuthInvoked(p, hdr, script, out) ==
    /\ nDeliv < AuthDeliveries
    /\ execLog' = WriteLog(execLog, out.log)
    /\ cur' = CurOf(gh, impl, p, TRUE, script, out, now)
    /\ gh' = GhAfter(gh, impl, p, TRUE, out, now)
    /\ nDeliv' = nDeliv + 1
    /\ auth' = [hmacSecret |-> auth.hmacSecret, finnhub |-> hdr.finnhub, sig |-> hdr.sig]
    /\ UNCHANGED <<impl, autoExecute, now, race, io, call>>
    /\ UNCHANGED pubVars

AuthDeliverDEP(p, hdr, script) ==
    /\ impl = "DEP"
    /\ LET out == DepRequest(s3dep, p, hdr, TRUE, script, autoExecute, now) IN
       /\ s3dep' = out.st
       /\ AuthInvoked(p, hdr, script, out)
    /\ UNCHANGED <<s3ta, ddb>>

AuthDeliverDDB(p, hdr, script) ==
    /\ impl = "DDB"
    /\ LET out == DdbRequest(ddb, p, hdr, auth.hmacSecret, TRUE, script, autoExecute, now) IN
       /\ ddb' = out.st
       /\ AuthInvoked(p, hdr, script, out)
    /\ UNCHANGED <<s3ta, s3dep>>

AuthNext ==
    \/ /\ nDeliv < AuthDeliveries
       /\ \E p \in PayloadsOf("DEP"), hdr \in Headers :
             \E script \in ScriptsFor(DepRequest(s3dep, p, hdr, TRUE, <<"ok">>, autoExecute, now)) :
                AuthDeliverDEP(p, hdr, script)
    \/ /\ nDeliv < AuthDeliveries
       /\ \E p \in PayloadsOf("DDB"), hdr \in Headers :
             \E script \in ScriptsFor(DdbRequest(ddb, p, hdr, auth.hmacSecret, TRUE, <<"ok">>,
                                                 autoExecute, now)) :
                AuthDeliverDDB(p, hdr, script)

AuthSpec == AuthInit /\ [][AuthNext]_vars

(***************************************************************************)
(* Invocations whose log write or e-mail may fail: ReportSpec delivers up  *)
(* to ReportDeliveries signals to one handler.                             *)
(***************************************************************************)
ReportDeliveries == 2

ReportInit ==
    /\ PublisherIdle
    /\ impl \in Impls
    /\ autoExecute \in BOOLEAN
    /\ now = Epoch
    /\ nDeliv = 0
    /\ s3ta = TaStore0
    /\ s3dep = DepStore0
    /\ ddb = DdbStore0
    /\ execLog = {}
    /\ cur = Cur0
    /\ gh = Gh0
    /\ race = RaceIdle
    /\ auth = AuthNone
    /\ io = IoFine
    /\ call = NoCall

ReportInvoked(p, script, out, logOk, mailOk) ==
    /\ nDeliv < ReportDeliveries
    /\ execLog' = WriteLog(execLog, out.log)
    /\ cur' = CurOf(gh, impl, p, TRUE, script, out, now)
    /\ gh' = GhAfter(gh, impl, p, TRUE, out, now)
    /\ nDeliv' = nDeliv + 1
    /\ io' = [logOk |-> logOk, mailOk |-> mailOk]
    /\ UNCHANGED <<impl, autoExecute, now, race, auth, call>>
    /\ UNCHANGED pubVars

ReportTA(p, script, logOk, mailOk) ==
    /\ impl = "TA"
    /\ LET out == TaReport(TaHandler(s3ta, p, TRUE, script, autoExecute, now),
                           logOk, mailOk) IN
       /\ s3ta' = out.st
       /\ ReportInvoked(p, script, out, logOk, mailOk)
    /\ UNCHANGED <<s3dep, ddb>>

ReportDEP(p, script, logOk, mailOk) ==
    /\ impl = "DEP"
    /\ LET out == AlpacaReport(DepHandler(s3dep, p, TRUE, script, autoExecute, now),
                               logOk, mailOk) IN
       /\ s3dep' = out.st
       /\ ReportInvoked(p, script, out, logOk, mailOk)
    /\ UNCHANGED <<s3ta, ddb>>

ReportDDB(p, script, logOk, mailOk) ==
    /\ impl = "DDB"
    /\ LET out == AlpacaReport(DdbHandler(ddb, p, TRUE, script, autoExecute, now),
                               logOk, mailOk) IN
       /\ ddb' = out.st
       /\ ReportInvoked(p, script, out, logOk, mailOk)
    /\ UNCHANGED <<s3ta, s3dep>>

ReportNext ==
    \/ /\ impl = "TA" /\ nDeliv < ReportDeliveries
       /\ \E p \in PayloadsOf("TA"), logOk \in BOOLEAN, mailOk \in BOOLEAN :
             \E script \in ScriptsFor(TaHandler(s3ta, p, TRUE, <<"ok">>, autoExecute, now)) :
                ReportTA(p, script, logOk, mailOk)
    \/ /\ impl = "DEP" /\ nDeliv < ReportDeliveries
       /\ \E p \in PayloadsOf("DEP"), logOk \in BOOLEAN, mailOk \in BOOLEAN :
             \E script \in ScriptsFor(DepHandler(s3dep, p, TRUE, <<"ok">>, autoExecute, now)) :
                ReportDEP(p, script, logOk, mailOk)
    \/ /\ impl = "DDB" /\ nDeliv < ReportDeliveries
       /\ \E p \in PayloadsOf("DDB"), logOk \in BOOLEAN, mailOk \in BOOLEAN :
             \E script \in ScriptsFor(DdbHandler(ddb, p, TRUE, <<"ok">>, autoExecute, now)) :
                ReportDDB(p, script, logOk, mailOk)

ReportSpec == ReportInit /\ [][ReportNext]_vars

(***************************************************************************)
(* The request helpers on their own: RetrySpec calls _request_with_retries *)
(* of one handler with every sequence of answers, with and without the     *)
(* requests library.                                                       *)
(***************************************************************************)
RequestOutcomes == {"ok", "http500", "http401", "http429", "exc"}

\* the answers to as many attempts as the longer of the two loops makes
RetryScripts == [1 .. DdbRetries -> RequestOutcomes]

RetryInit ==
    /\ PublisherIdle
    /\ WebhookIdle

\* place_order of DEP: _request_with_retries(..., max_retries=2)
RequestDEP(script, has_requests) ==
    /\ call' = [fn |-> "DEP", script |-> script, has_requests |-> has_requests,
                r |-> DepRequestWithRetries(script, 0, DepMaxRetries, has_requests)]
    /\ UNCHANGED <<impl, autoExecute, now, nDeliv, s3ta, s3dep, ddb, execLog, cur, gh,
                   race, auth, io, pubVars>>

\* place_order of DDB: _request_with_retries(..., retries=3)
RequestDDB(script, has_requests) ==
    /\ call' = [fn |-> "DDB", script |-> script, has_requests |-> has_requests,
                r |-> DdbRequestWithRetries(script, 1, DdbRetries)]
    /\ UNCHANGED <<impl, autoExecute, now, nDeliv, s3ta, s3dep, ddb, execLog, cur, gh,
                   race, auth, io, pubVars>>

RetryNext ==
    \/ \E script \in RetryScripts, has_requests \in BOOLEAN : RequestDEP(script, has_requests)
    \/ \E script \in RetryScripts, has_requests \in BOOLEAN : RequestDDB(script, has_requests)

RetrySpec == RetryInit /\ [][RetryNext]_vars

(***************************************************************************)
(* The protective prices on their own: PriceSpec derives them for every    *)
(* side, reference price and percentage of the sets below.                 *)
(***************************************************************************)
\* 1000000 ten-thousandths are 100.00 in the webhook handler
WebhookPrices == (1 .. MaxPrice) \cup {1000000}

\* 10000 cents are 100.00 in place_order_with_stops
LambdaPrices == (1 .. MaxPrice) \cup {10000}

\* stop_loss_pct and limit_pct as a body can carry them
Pcts == {1, 5, 10, 50}

PriceInit ==
    /\ PublisherIdle
    /\ WebhookIdle

PriceFrame ==
    UNCHANGED <<impl, autoExecute, now, nDeliv, s3ta, s3dep, ddb, execLog, cur, gh,
                race, auth, io, pubVars>>

\* lambda_handler of DDB for a body that carries stop_loss_pct and
\* limit_pct: the percentages are read from the parsed event,
\* float(webhook_data.get('stop_loss_pct', 0)); price is the reference
\* price at hand (Finnhub's 'p' or the latest quote)
SuggestPrices(action, price, sl, tp) ==
    /\ LET webhook_data == DdbWebhookData(Payload("AAPL", action, 1, FALSE),
                                          [stop_loss_pct |-> sl, limit_pct |-> tp])
           stop_loss_pct == Get(webhook_data, "stop_loss_pct", 0)
           limit_pct == Get(webhook_data, "limit_pct", 0)
       IN \E r \in SuggestedPrices(action, price, stop_loss_pct, limit_pct) :
             call' = [fn |-> "suggested", side |-> action, price |-> price,
                      stop_loss_pct |-> sl, limit_pct |-> tp,
                      has_stop |-> r.has_stop, stop |-> r.stop,
                      has_limit |-> r.has_limit, limit |-> r.limit]
    /\ PriceFrame

PlaceOrderWithStops(side, price) ==
    /\ \E r \in StopsPrices(side, price) :
          call' = [fn |-> "place_order_with_stops",
                   side |-> IF side = "buy" THEN "BUY" ELSE "SELL", price |-> price,
                   stop_loss_pct |-> STOP_LOSS_PCT, limit_pct |-> TAKE_PROFIT_PCT,
                   has_stop |-> TRUE, stop |-> r.stop,
                   has_limit |-> TRUE, limit |-> r.limit]
    /\ PriceFrame

PriceNext ==
    \/ \E action \in {"BUY", "SELL"}, price \in WebhookPrices, sl \in Pcts, tp \in Pcts :
          SuggestPrices(action, price, sl, tp)
    \/ \E side \in {"buy", "sell"}, price \in LambdaPrices :
          PlaceOrderWithStops(side, price)

PriceSpec == PriceInit /\ [][PriceNext]_vars

(***************************************************************************)
(* The confidence filter of DDB: ConfSpec delivers bodies that carry a     *)
(* "confidence" field, or none, to a handler configured with               *)
(* MIN_CONFIDENCE.  Confidences are in hundredths.                         *)
(***************************************************************************)
ConfDeliveries == 2

\* the fields a body can have besides symbol, action, qty, source, timestamp
ExtraFieldSets ==
    { [k \in D |-> c] : D \in SUBSET {"confidence"}, c \in {10, 90} }

\* MIN_CONFIDENCE: 0.0 by default
MinConfidences == {0, 50, 150}

\* lambda_handler of DDB with its confidence filter, which comes after the
\* idempotency block and the validation and before the order:
\* float(webhook_data.get('confidence', 1.0)) < MIN_CONFIDENCE
DdbHandlerWithConfidence(st, p, extras, min_confidence, up, script, auto, t) ==
    LET g == DdbIdempotencyCheck(st, p, up, t)
        webhook_data == DdbWebhookData(p, extras)
        confidence == Get(webhook_data, "confidence", 100)
    IN
    IF g.ok /\ IsValid(p) /\ confidence < min_confidence
    THEN Out(GuardrailSkip(200, "Low confidence - skipped", "low_confidence"), g.st,
             WebhookLog(up, t, <<"skipped", "low_confidence">>),
             FALSE, "low_confidence", 0, "none")
    ELSE DdbHandler(st, p, up, script, auto, t)

ConfInit ==
    /\ PublisherIdle
    /\ impl = "DDB"
    /\ autoExecute \in BOOLEAN
    /\ now = Epoch
    /\ nDeliv = 0
    /\ s3ta = TaStore0
    /\ s3dep = DepStore0
    /\ ddb = DdbStore0
    /\ execLog = {}
    /\ cur = Cur0
    /\ gh = Gh0
    /\ race = RaceIdle
    /\ auth = AuthNone
    /\ io = IoFine
    /\ call = NoCall

ConfDeliverDDB(p, extras, min_confidence, script) ==
    /\ nDeliv < ConfDeliveries
    /\ LET out == DdbHandlerWithConfidence(ddb, p, extras, min_confidence, TRUE, script,
                                           autoExecute, now) IN
       /\ ddb' = out.st
       /\ execLog' = WriteLog(execLog, out.log)
       /\ cur' = CurOf(gh, impl, p, TRUE, script, out, now)
       /\ gh' = GhAfter(gh, impl, p, TRUE, out, now)
    /\ nDeliv' = nDeliv + 1
    /\ call' = [fn |-> "confidence_filter",
                has_confidence |-> "confidence" \in DOMAIN extras,
                confidence |-> Get(extras, "confidence", 100),
                min_confidence |-> min_confidence]
    /\ UNCHANGED <<impl, autoExecute, now, s3ta, s3dep, race, auth, io>>
    /\ UNCHANGED pubVars

ConfNext ==
    /\ nDeliv < ConfDeliveries
    /\ \E p \in PayloadsOf("DDB"), extras \in ExtraFieldSets, m \in MinConfidences :
          \E script \in ScriptsFor(DdbHandlerWithConfidence(ddb, p, extras, m, TRUE, <<"ok">>,
                                                            autoExecute, now)) :
             ConfDeliverDDB(p, extras, m, script)

ConfSpec == ConfInit /\ [][ConfNext]_vars

(***************************************************************************)
(* The debounce key on its own: KeySpec computes, for one handler, the key *)
(* of the debounce record for two deliveries.  sha256 is taken as          *)
(* one-to-one on the strings it is given.                                  *)
(***************************************************************************)
\* the four fields of a body: one signal, and the four signals that differ
\* from it in one field
KeyFields ==
    LET f0 == [symbol |-> "AAPL", action |-> "BUY", qty |-> 1, source |-> "test"] IN
    { f0, [f0 EXCEPT !.symbol = "MSFT"], [f0 EXCEPT !.action = "SELL"],
      [f0 EXCEPT !.qty = 2], [f0 EXCEPT !.source = "webhook"] }

\* a body: its four fields, and its "timestamp" field if it has one

KeyBodies == { [f |-> f, timestamp |-> ts] : f \in KeyFields, ts \in {"absent", "T0", "T1"} }

\* the instants at which a delivery can be parsed
KeyInstants == {0, 1}

\* DEP lambda_handler, "Standard webhook format": the parsed event carries
\* body.get('timestamp', datetime.utcnow().isoformat())
DepWebhookData(body, at) ==
    [f |-> body.f,
     timestamp |-> IF body.timestamp = "absent" THEN <<"utcnow", at>>
                   ELSE <<"body", body.timestamp>>]

\* TA Guardrails._debounce_key: one object for every event
TaDebounceKey == "guardrails/debounce.json"

\* DEP _state_key_recent(_event_hash(webhook_data)): the hash of the whole
\* parsed event
DepRecentKey(webhook_data) == <<"state/recent", webhook_data>>

\* DDB debounce_key: "debounce::" and the hash of symbol|action|qty|source
DdbDebounceKey(body) ==
    <<"debounce", body.f.symbol, body.f.action, body.f.qty, body.f.source>>

KeyInit ==
    /\ PublisherIdle
    /\ WebhookIdle

KeyFrame ==
    UNCHANGED <<impl, autoExecute, now, nDeliv, s3ta, s3dep, ddb, execLog, cur, gh,
                race, auth, io, pubVars>>

KeysTA(a, b) ==
    /\ call' = [fn |-> "TA_key", a |-> a, b |-> b,
                ka |-> TaDebounceKey, kb |-> TaDebounceKey]
    /\ KeyFrame

KeysDEP(a, b, at) ==
    /\ call' = [fn |-> "DEP_key", a |-> a, b |-> b,
                ka |-> DepRecentKey(DepWebhookData(a, 0)),
                kb |-> DepRecentKey(DepWebhookData(b, at))]
    /\ KeyFrame

KeysDDB(a, b) ==
    /\ call' = [fn |-> "DDB_key", a |-> a, b |-> b,
                ka |-> DdbDebounceKey(a), kb |-> DdbDebounceKey(b)]
    /\ KeyFrame

KeyNext ==
    \/ \E a \in KeyBodies, b \in KeyBodies : KeysTA(a, b)
    \/ \E a \in KeyBodies, b \in KeyBodies, at \in KeyInstants : KeysDEP(a, b, at)
    \/ \E a \in KeyBodies, b \in KeyBodies : KeysDDB(a, b)

KeySpec == KeyInit /\ [][KeyNext]_vars

(***************************************************************************)
(* Protective orders placed as orders of their own: place_order_with_stops *)
(* of trading-lambda.py (Alpaca: main, stop loss, take profit) and         *)
(* _place_order_with_stop of the analysis stage (Kite: primary, stop       *)
(* loss).  posts: the order requests sent, <<leg, side>> each, in order;    *)
(* result, stop_loss, take_profit: what is returned; errors: how many      *)
(* failures were logged.                                                   *)
(***************************************************************************)
\* what the broker does with the main order: accepts it, answers 2xx with
\* another status, answers non-2xx (raise_for_status raises), or the
\* request raises
MainOutcomes == {"accepted", "pending_new", "http_error", "exc"}

\* what the broker does with a protective order: 201 with the order, another
\* status code, or the request raises
LegOutcomes == {"created", "http_error", "exc"}

\* kite.place_order returns an order id or raises
KiteOutcomes == {"ok", "exc"}

OppositeSide(side) == IF side = "buy" THEN "sell" ELSE "buy"

\* stop_result / profit_result and the status put into the combined result
LegStatus(o) == IF o = "created" THEN "new" ELSE "failed"

\* a stop-loss failure that gives up the whole placement
PlaceOrderWithStopsGivesUp(side, has_price, main, stop, profit) ==
    IF main \in {"http_error", "exc"}
    THEN [posts |-> << <<"main", side>> >>, result |-> "None",
          stop_loss |-> "absent", take_profit |-> "absent", errors |-> 1]
    ELSE IF ~has_price \/ main # "accepted"
    THEN [posts |-> << <<"main", side>> >>, result |-> main,
          stop_loss |-> "absent", take_profit |-> "absent", errors |-> 0]
    ELSE IF stop # "created"
    THEN [posts |-> << <<"main", side>>, <<"stop", OppositeSide(side)>> >>,
          result |-> "None", stop_loss |-> "absent", take_profit |-> "absent",
          errors |-> 1]
    ELSE [posts |-> << <<"main", side>>, <<"stop", OppositeSide(side)>>,
                       <<"profit", OppositeSide(side)>> >>,
          result |-> main, stop_loss |-> LegStatus(stop),
          take_profit |-> LegStatus(profit), errors |-> 0]

\* place_order_with_stops: the main order, then (current_price given and
\* the main order 'accepted') the stop and the limit order, each in its own
\* try; result "None" is the None returned from the outer except
PlaceOrderWithStopsResult(side, has_price, main, stop, profit) ==
    IF main \in {"http_error", "exc"}
    THEN [posts |-> << <<"main", side>> >>, result |-> "None",
          stop_loss |-> "absent", take_profit |-> "absent", errors |-> 1]
    ELSE IF ~has_price \/ main # "accepted"
    THEN [posts |-> << <<"main", side>> >>, result |-> main,
          stop_loss |-> "absent", take_profit |-> "absent", errors |-> 0]
    ELSE [posts |-> << <<"main", side>>, <<"stop", OppositeSide(side)>>,
                       <<"profit", OppositeSide(side)>> >>,
          result |-> main, stop_loss |-> LegStatus(stop),
          take_profit |-> LegStatus(profit), errors |-> 0]

\* _place_order_with_stop: nothing for qty <= 0; the primary order; with a
\* price, the SL order in its own try, whose failure is logged as an error
\* (errors) and leaves no trace in the order id that is returned
PlaceOrderWithStopResult(side, qty, has_price, primary, sl) ==
    IF qty <= 0
    THEN [posts |-> <<>>, result |-> "None",
          stop_loss |-> "absent", take_profit |-> "absent", errors |-> 0]
    ELSE IF primary = "exc"
    THEN [posts |-> << <<"main", side>> >>, result |-> "None",
          stop_loss |-> "absent", take_profit |-> "absent", errors |-> 1]
    ELSE IF ~has_price
    THEN [posts |-> << <<"main", side>> >>, result |-> "order_id",
          stop_loss |-> "absent", take_profit |-> "absent", errors |-> 0]
    ELSE [posts |-> << <<"main", side>>,
                       <<"stop", IF side = "BUY" THEN "SELL" ELSE "BUY">> >>,
          result |-> "order_id", stop_loss |-> "absent", take_profit |-> "absent",
          errors |-> IF sl = "ok" THEN 0 ELSE 1]

StopsInit ==
    /\ PublisherIdle
    /\ WebhookIdle

StopsFrame ==
    UNCHANGED <<impl, autoExecute, now, nDeliv, s3ta, s3dep, ddb, execLog, cur, gh,
                race, auth, io, pubVars>>

PlaceWithStops(side, has_price, main, stop, profit) ==
    /\ call' = [fn |-> "place_order_with_stops", side |-> side, has_price |-> has_price,
                main |-> main, stop |-> stop, profit |-> profit,
                r |-> PlaceOrderWithStopsResult(side, has_price, main, stop, profit)]
    /\ StopsFrame

PlaceWithStop(side, qty, has_price, primary, sl) ==
    /\ call' = [fn |-> "_place_order_with_stop", side |-> side, has_price |-> has_price,
                main |-> primary, stop |-> sl, profit |-> "absent", qty |-> qty,
                r |-> PlaceOrderWithStopResult(side, qty, has_price, primary, sl)]
    /\ StopsFrame

StopsNext ==
    \/ \E side \in {"buy", "sell"}, has_price \in BOOLEAN, main \in MainOutcomes,
          stop \in LegOutcomes, profit \in LegOutcomes :
          PlaceWithStops(side, has_price, main, stop, profit)
    \/ \E side \in {"BUY", "SELL"}, qty \in {0, 1}, has_price \in BOOLEAN,
          primary \in KiteOutcomes, sl \in KiteOutcomes :
          PlaceWithStop(side, qty, has_price, primary, sl)

StopsSpec == StopsInit /\ [][StopsNext]_vars

(***************************************************************************)
(* Reading the guardrail records of the handler that is running.           *)
(***************************************************************************)
RECURSIVE SumOver(_, _)
SumOver(f, S) ==
    IF S = {} THEN 0
    ELSE LET x == CHOOSE y \in S : TRUE IN f[x] + SumOver(f, S \ {x})

\* the daily counter that covers symbol s on day d: one per day in TA and
\* DEP, one per symbol and day in DDB
StoreDayCount(d, s) ==
    IF impl = "TA" THEN s3ta.day[d]
    ELSE IF impl = "DEP" THEN s3dep.daily[d]
    ELSE Get(ddb.daily, <<s, d>>, 0)

\* the last-trade timestamp kept for symbol s
StoreSymTs(s) ==
    IF impl = "TA" THEN s3ta.sy[s]
    ELSE IF impl = "DEP" THEN s3dep.sym[s]
    ELSE Get(ddb.sym, s, 0)

\* admissions of day d that fall in the scope of the counter covering s
CountedInScope(d, s) ==
    IF impl = "DDB" THEN gh.dayCnt[d][s] ELSE SumOver(gh.dayCnt[d], Symbols)

\* the invocation that has just returned found the state store reachable
\* and carried a valid signal
ValidCheck == cur.done /\ cur.up /\ IsValid(cur.p)

(***************************************************************************)
(* C1  Two sequential deliveries of the same (symbol, action, qty, source) *)
(* inside the debounce window produce one broker order call: a delivery    *)
(* that comes less than DEBOUNCE_SECONDS after an order request for the    *)
(* same stable key went to the broker sends no order request.              *)
(* Violated in DEP: the debounce hash covers the generated timestamp, and  *)
(* an order the broker refused leaves no last-trade record.                *)
(***************************************************************************)
C1_OneBrokerCallPerDebounceWindow ==
    (ValidCheck /\ cur.prevCall > 0 /\ now - cur.prevCall < DEBOUNCE_SECONDS)
        => cur.attempts = 0

(***************************************************************************)
(* C2  If the guardrail check admitted event e at time t, a second check   *)
(* of e less than DEBOUNCE_SECONDS later answers allowed = false with      *)
(* reason debounce (TA and DEP, state store reachable at both checks).     *)
(* In DEP "the same event" is the same hashed payload: cur.prevAdmEv is    *)
(* kept for the payloads that carry their own timestamp.                   *)
(***************************************************************************)
C2_SecondCheckDebounced ==
    (ValidCheck /\ impl \in {"TA", "DEP"}
       /\ cur.prevAdmEv > 0 /\ now - cur.prevAdmEv < DEBOUNCE_SECONDS)
        => (~cur.admitted /\ cur.reason = "debounce")

\* DEP: the event admitted a moment ago is checked again and debounced
C2_Witness ==
    /\ ValidCheck /\ impl = "DEP"
    /\ cur.prevAdmEv > 0 /\ now - cur.prevAdmEv < DEBOUNCE_SECONDS
    /\ cur.reason = "debounce"

(***************************************************************************)
(* C3 as stated: after a recorded admission of a trade for s at t, every   *)
(* signal for s checked less than MIN_INTERVAL_SAME_SYMBOL_SECONDS later   *)
(* is rejected with reason symbol_interval.                                *)
(* Violated: the debounce test runs first, so inside the debounce window   *)
(* the reason is debounce.                                                 *)
(***************************************************************************)
C3_RejectedAsSymbolInterval ==
    (ValidCheck /\ impl \in {"TA", "DEP"}
       /\ cur.prevRec > 0 /\ now - cur.prevRec < MIN_INTERVAL_SAME_SYMBOL_SECONDS)
        => (~cur.admitted /\ cur.reason = "symbol_interval")

\* no debounce test can fire for this check: in TA nothing was admitted in
\* the last DEBOUNCE_SECONDS, in DEP the event has a hash of its own
NoDebounceWindow ==
    IF impl = "TA" THEN now - cur.prevAdmAny >= DEBOUNCE_SECONDS
    ELSE ~cur.p.hasTs

(***************************************************************************)
(* C3 amended: after a recorded admission of a trade for s at t, every     *)
(* signal for s checked less than MIN_INTERVAL_SAME_SYMBOL_SECONDS later   *)
(* is rejected (all three handlers); in TA and DEP the reason is debounce  *)
(* or symbol_interval, and it is symbol_interval whenever no debounce      *)
(* window is open.                                                         *)
(***************************************************************************)
C3_RejectedWithinInterval ==
    (ValidCheck /\ cur.prevRec > 0
       /\ now - cur.prevRec < MIN_INTERVAL_SAME_SYMBOL_SECONDS)
        => /\ ~cur.admitted
           /\ impl \in {"TA", "DEP"} =>
                 /\ cur.reason \in {"debounce", "symbol_interval"}
                 /\ NoDebounceWindow => cur.reason = "symbol_interval"

\* TA: outside the debounce window, inside the cooldown
C3_Witness ==
    /\ ValidCheck /\ impl = "TA"
    /\ cur.prevRec > 0 /\ now - cur.prevRec < MIN_INTERVAL_SAME_SYMBOL_SECONDS
    /\ now - cur.prevAdmAny >= DEBOUNCE_SECONDS
    /\ cur.reason = "symbol_interval"

(***************************************************************************)
(* C4  After a recorded admission of a trade for s at t, a signal for s    *)
(* checked at t' >= t + MIN_INTERVAL_SAME_SYMBOL_SECONDS + 1 that meets no *)
(* debounce conflict (debounce, DDB's repeat counter and duplicate-event   *)
(* record) and is under the daily cap is admitted: the cooldown itself     *)
(* never rejects it.                                                       *)
(***************************************************************************)
C4_EligibleAfterCooldown ==
    (ValidCheck /\ cur.prevRec > 0
       /\ now >= cur.prevRec + MIN_INTERVAL_SAME_SYMBOL_SECONDS + 1
       /\ cur.reason \notin {"debounce", "debounce_wait", "duplicate", "daily_cap"})
        => cur.admitted

\* DDB: the symbol traded before is admitted again after its cooldown
C4_Witness ==
    /\ ValidCheck /\ impl = "DDB"
    /\ cur.prevRec > 0
    /\ now >= cur.prevRec + MIN_INTERVAL_SAME_SYMBOL_SECONDS + 1
    /\ cur.admitted

StoreAfter(p, auto) ==
    IF impl = "TA" THEN TaHandler(s3ta, p, TRUE, <<"ok">>, auto, now).st
    ELSE IF impl = "DEP" THEN DepHandler(s3dep, p, TRUE, <<"ok">>, auto, now).st
    ELSE DdbHandler(ddb, p, TRUE, <<"ok">>, auto, now).st

\* the admission of the invocation that has just returned is on record: the
\* symbol's timestamp is this second and the daily counter has counted it
AdmissionRecorded ==
    /\ StoreSymTs(cur.p.symbol) = now
    /\ StoreDayCount(Day(now), cur.p.symbol) >= 1
    /\ StoreDayCount(Day(now), cur.p.symbol) = CountedInScope(Day(now), cur.p.symbol)

C9_BrokerFailureIsReported ==
    (cur.done /\ cur.attempts > 0 /\ cur.orderOk = "failed")
        => /\ ~cur.resp.raised
           /\ cur.resp.status = 200
           /\ cur.resp.error
           /\ impl \in {"DEP", "DDB"} => cur.resp.success = "false"

\* DDB: the broker answered HTTP 500 to each of the three attempts
C9_Witness ==
    /\ cur.done /\ cur.up /\ impl = "DDB"
    /\ cur.script = <<"http500", "http500", "http500">>
    /\ cur.resp.status = 200 /\ cur.resp.error /\ cur.resp.success = "false"

(***************************************************************************)
(* C10  In each handler a payload without a symbol, without an action in   *)
(* {BUY, SELL} or without a quantity > 0 is answered 200 as a skip: an     *)
(* empty symbol with "No symbol provided, skipping trade", a quantity of 0 *)
(* with "Invalid quantity, skipping trade".                                *)
(* Violated: TA answers 400 "Invalid input"; DDB runs its idempotency      *)
(* block first and answers the first delivery "Debounce - waiting for      *)
(* repeated signal".                                                       *)
(***************************************************************************)
C10_InvalidPayloadSkippedWith200 ==
    (cur.done /\ ~IsValid(cur.p))
        => /\ ~cur.resp.raised
           /\ cur.resp.status = 200
           /\ cur.p.symbol = "" =>
                 cur.resp.message = "No symbol provided, skipping trade"
           /\ (cur.p.symbol # "" /\ cur.p.action \in {"BUY", "SELL"} /\ cur.p.qty = 0) =>
                 cur.resp.message = "Invalid quantity, skipping trade"

(***************************************************************************)
(* Reading the calls one publish made.                                     *)
(***************************************************************************)
CallsTo(tier) == {i \in DOMAIN pub.trace : pub.trace[i][1] = tier}

AckedBy(tier) == \E i \in CallsTo(tier) : pub.trace[i][2] = "ack"

\* three primary put_events, none acknowledged
PrimaryExhausted ==
    Cardinality(CallsTo("primary")) = 3 /\ ~AckedBy("primary")

PublishReturned == pub.pc = "done" /\ pub.result \in {"true", "false"}

ExpectedStatus(b) == IF b.kind = "ok" THEN 200 ELSE 500

ExpectedMessage(b) == IF b.kind = "ok" THEN "Backfill completed" ELSE "Backfill failed"

(***************************************************************************)
(* C7  Every invocation of the fetch handler calls the publish exactly     *)
(* once, also when the backfill failed or raised, and returns a response   *)
(* whose status code, message and processed-symbol fields follow from the  *)
(* backfill alone: a publish that returns false or raises changes none of  *)
(* them and the handler does not raise.                                    *)
(***************************************************************************)
C7_FetchResultIndependentOfPublish ==
    /\ fh.publishCalls <= 1
    /\ fh.pc \in {"publishing", "returned"} => fh.publishCalls = 1
    /\ fh.pc = "returned" =>
          /\ ~fh.resp.raised
          /\ fh.resp.statusCode = ExpectedStatus(fh.backfill)
          /\ fh.resp.message = ExpectedMessage(fh.backfill)
          /\ fh.resp.symbols_processed = fh.backfill.processed
          /\ fh.resp.total_symbols = fh.backfill.total

\* the backfill succeeded, the publish raised, the handler answers 200
C7_Witness ==
    /\ fh.pc = "returned" /\ fh.publishCalls = 1
    /\ fh.backfill.kind = "ok" /\ pub.result = "raised"
    /\ fh.resp.statusCode = 200 /\ ~fh.resp.analysis_triggered

(***************************************************************************)
(* C11  A payload with an empty symbol, an action outside {BUY, SELL} or a *)
(* quantity <= 0 is rejected before any guardrail record is read or        *)
(* written and before any broker call: the invocation leaves the guardrail *)
(* store exactly as it found it and sends no order request.                *)
(* Violated in DDB: the idempotency block runs before the validation and   *)
(* writes the debounce counter of the invalid payload.                     *)
(***************************************************************************)
C11_InvalidInputLeavesStoreUntouched ==
    [][(cur'.done /\ ~IsValid(cur'.p))
          => /\ UNCHANGED <<s3ta, s3dep, ddb>>
             /\ cur'.attempts = 0]_vars

(***************************************************************************)
(* C12  When two invocations that handle the same event overlap, under     *)
(* every interleaving of their state-store reads and writes at most one of *)
(* them passes the guardrail check and calls the broker.                   *)
(* Violated in all three handlers: the records are read, tested and        *)
(* written by separate calls, so both invocations can read before either   *)
(* writes.                                                                 *)
(***************************************************************************)
C12_AtMostOneOverlappingPasses ==
    ~(/\ race[1].allowed /\ race[2].allowed
      /\ race[1].called /\ race[2].called)

\* the handler is given a secret to compare with, and the header of the
\* latest request does not match it
SecretMismatch(a) ==
    \/ a.finnhub = "mismatch"
    \/ a.hmacSecret /\ a.sig = "mismatch"

(***************************************************************************)
(* C13  When a shared secret or an HMAC secret is configured and the       *)
(* request's secret header or X-Signature does not match it, the handler   *)
(* answers 403 and makes no guardrail read or write, no broker call and no *)
(* execution-log write.                                                    *)
(* Violated: a wrong X-Finnhub-Secret is never rejected (the comparison    *)
(* only logs when it matches), and DEP verifies no signature at all.       *)
(***************************************************************************)
C13_SecretMismatchForbidden ==
    [][(cur'.done /\ SecretMismatch(auth'))
          => /\ cur'.resp.status = 403
             /\ cur'.attempts = 0
             /\ UNCHANGED <<s3ta, s3dep, ddb, execLog>>]_vars

\* the reasons a guardrail check gives for turning a signal away
GuardrailReasons ==
    {"debounce", "duplicate", "debounce_wait", "symbol_interval", "daily_cap"}

(***************************************************************************)
(* C14  Every guardrail rejection (duplicate or debounce, per-symbol       *)
(* interval, daily cap) writes one execution-log record that carries the   *)
(* skip reason, is answered 200 with the reason in the body, and sends no  *)
(* order request.                                                          *)
(* Violated in DDB: a duplicate event is answered 200 "Duplicate event -   *)
(* skipped" without any execution-log write.                               *)
(***************************************************************************)
C14_RejectionLoggedAndAnswered ==
    (cur.done /\ cur.reason \in GuardrailReasons)
        => /\ ~cur.resp.raised
           /\ cur.resp.status = 200
           /\ cur.resp.skip = cur.reason
           /\ cur.attempts = 0
           /\ Len(cur.log) = 1
           /\ cur.log[1][2] = <<"skipped", cur.reason>>

(***************************************************************************)
(* C15  After the order attempt, a failure of the notification send or of  *)
(* the execution-log write never fails the request: the handler still      *)
(* answers 200 with the result of the trade attempt (its error when the    *)
(* order failed).                                                          *)
(* Violated in TA: s3_write_json and send_email let the exception through  *)
(* and lambda_handler does not catch it.                                   *)
(***************************************************************************)
C15_ReportFailureNeverFailsRequest ==
    (cur.done /\ cur.admitted /\ (~io.logOk \/ ~io.mailOk))
        => /\ ~cur.resp.raised
           /\ cur.resp.status = 200
           /\ cur.orderOk = "failed" => cur.resp.error

\* the attempts of a script that succeed
OkAttempts(script) == {k \in DOMAIN script : script[k] = "ok"}

\* the first attempt that succeeds
FirstOk(script) == CHOOSE k \in OkAttempts(script) : \A j \in OkAttempts(script) : k <= j

(***************************************************************************)
(* C16  _request_with_retries retries a request that raised a transport    *)
(* exception and also one that returned a non-2xx status, makes at most 3  *)
(* attempts, returns at the first attempt that succeeds without making     *)
(* another, and re-raises the last error when all 3 attempts failed.       *)
(* Violated in DEP with the requests library: a non-2xx answer is returned *)
(* to the caller after the first attempt and never retried.                *)
(***************************************************************************)
C16_RetriesBothFailureKinds ==
    call.fn \in {"DEP", "DDB"} =>
        /\ call.r.attempts <= 3
        /\ OkAttempts(call.script) # {} =>
              /\ ~call.r.raised
              /\ call.r.status = 200
              /\ call.r.attempts = FirstOk(call.script)
        /\ OkAttempts(call.script) = {} =>
              /\ call.r.raised
              /\ call.r.attempts = 3

(***************************************************************************)
(* C17  For every positive reference price and positive stop-loss and      *)
(* take-profit percentages the derived prices of a BUY satisfy             *)
(* stop < reference < take-profit limit, and those of a SELL               *)
(* take-profit limit < reference < stop.                                   *)
(* Violated: the webhook handler never copies the percentages of the body *)
(* into the parsed event and derives no protective price at all; in        *)
(* place_order_with_stops the rounding to cents makes a price equal to the *)
(* reference when the reference is a few cents.                            *)
(***************************************************************************)
C17_ProtectivePricesBracketReference ==
    call.fn \in {"suggested", "place_order_with_stops"} =>
        /\ call.has_stop /\ call.has_limit
        /\ IF call.side = "BUY"
           THEN call.stop < call.price /\ call.price < call.limit
           ELSE call.limit < call.price /\ call.price < call.stop

(***************************************************************************)
(* C18  Execution-log records are write-once: the record written for an    *)
(* earlier attempt stays present and unchanged, no later attempt, admitted *)
(* or skipped, overwrites it.  put_object replaces the object under its    *)
(* key, so no invocation may write a log under a key that already holds a  *)
(* record.                                                                 *)
(* Violated: TA names the object after the symbol alone when the event has *)
(* no id, DEP and DDB after the second of the wall clock.                  *)
(***************************************************************************)
C18_LogRecordsWriteOnce ==
    [][\A i \in DOMAIN cur'.log : cur'.log[i][1] \notin execLog]_vars

\* the publish in progress has neither returned nor raised
PublishRunning == pub.pc \in {"primary", "fallback", "direct"}

\* no call is made after a call that succeeded, each of the two later tiers
\* is called at most once, the fallback only after three failed primaries
CallsOrdered ==
    /\ \A i \in DOMAIN pub.trace : pub.trace[i][2] = "ack" => i = Len(pub.trace)
    /\ Cardinality(CallsTo("primary")) <= 3
    /\ Cardinality(CallsTo("fallback")) <= 1
    /\ Cardinality(CallsTo("direct")) <= 1
    /\ CallsTo("fallback") # {} => PrimaryExhausted
    /\ Len(pub.trace) <= 5

\* a fallback publish was made and was not acknowledged
FallbackFailed == CallsTo("fallback") # {} /\ ~AckedBy("fallback")

(***************************************************************************)
(* C19 as stated: the fallback event is published at most once and only    *)
(* after exactly 3 failed primary attempts, the direct invocation is       *)
(* attempted at most once and only after the fallback publish has failed,  *)
(* and no call follows the first call that succeeds; at most 5 calls.      *)
(* Violated in the analysis stage: publish_fallback_exporter_event passes  *)
(* no fallback entry, and the direct invocation follows the third failed   *)
(* primary attempt without any fallback publish.                           *)
(***************************************************************************)
C19_DirectOnlyAfterFailedFallback ==
    /\ CallsOrdered
    /\ CallsTo("direct") # {} => FallbackFailed

(***************************************************************************)
(* C19 amended: the fallback event is published at most once and only     *)
(* after exactly 3 failed primary attempts; the direct invocation is       *)
(* attempted at most once, only after 3 failed primary attempts and only   *)
(* after the fallback publish has failed or, when the caller gave no       *)
(* fallback entry, without one; no call follows the first call that        *)
(* succeeds; a run makes at most 5 calls, and every run that has started   *)
(* returns.                                                                *)
(***************************************************************************)
C19_TiersInOrderAndTerminates ==
    /\ [](/\ CallsOrdered
          /\ CallsTo("direct") # {} =>
                /\ PrimaryExhausted
                /\ pubCfg.lambdaEnv
                /\ IF pubCfg.fallbackEntry THEN FallbackFailed
                   ELSE CallsTo("fallback") = {})
    /\ (PublishRunning ~> pub.pc = "done")

\* fetch stage: all five calls were made and the last one, the direct
\* invocation, went through
C19_Witness ==
    /\ pub.pc = "done" /\ pubCfg.variant = "fetch"
    /\ Len(pub.trace) = 5
    /\ PrimaryExhausted /\ FallbackFailed /\ AckedBy("direct")

\* primary attempts answered without an exception but with failed entries
FailedAnswers == {i \in CallsTo("primary") : pub.trace[i][2] = "failed"}

(***************************************************************************)
(* C20: a primary publish attempt counts as successful only if the answer  *)
(* reports zero failed entries.  An answer that comes back without raising *)
(* but with a non-zero FailedEntryCount never makes the run return true    *)
(* by itself, and it is followed by another primary attempt as long as     *)
(* fewer than 3 were made; there are never more than 3 primary attempts.   *)
(***************************************************************************)
C20_FailedEntriesAreRetried ==
    /\ Cardinality(CallsTo("primary")) <= 3
    /\ \A i \in CallsTo("primary") :
          /\ (i = Len(pub.trace) /\ pub.result = "true") => pub.trace[i][2] = "ack"
          /\ i < Len(pub.trace) => pub.trace[i][2] # "ack"
    /\ \A i \in FailedAnswers :
          /\ i = Len(pub.trace) => pub.result # "true"
          /\ i < 3 => IF i < Len(pub.trace) THEN pub.trace[i + 1][1] = "primary"
                      ELSE pub.pc = "primary" /\ pub.attempt = i + 1
          /\ i = 3 /\ i = Len(pub.trace) => pub.pc \in {"fallback", "direct", "done"}

\* two answers with failed entries, then the third attempt is acknowledged
C20_Witness ==
    /\ pub.pc = "done" /\ pub.result = "true"
    /\ pub.trace = <<<<"primary", "failed">>, <<"primary", "failed">>, <<"primary", "ack">>>>

\* the tests of the guardrail check, each taken on the store as the
\* invocation finds it, for the handler this behaviour runs
FailsDebounce(p) ==
    IF impl = "TA" THEN TaDebounceHit(s3ta.de, now)
    ELSE IF impl = "DEP"
    THEN MarkerExists(s3dep, p) /\ DepDebounceHit(s3dep.marker[EventHash(p)], now)
    ELSE \/ StableKey(p) \in ddb.event
         \/ DdbDebounceWait(Get(ddb.debounce, StableKey(p), 0) + 1)

FailsCooldown(p) ==
    IF impl = "TA" THEN TaIntervalHit(s3ta.sy[p.symbol], now)
    ELSE IF impl = "DEP" THEN DepIntervalHit(s3dep.sym[p.symbol], now)
    ELSE DdbIntervalHit(ddb, p.symbol, now)

FailsCap(p) ==
    IF impl = "TA" THEN TaCapHit(s3ta.day[Day(now)])
    ELSE IF impl = "DEP" THEN DepCapHit(s3dep.daily[Day(now)])
    ELSE DdbCapHit(Get(ddb.daily, <<p.symbol, Day(now)>>, 0))

\* the reasons by which a handler names a debounce rejection
DebounceReasons == {"debounce", "duplicate", "debounce_wait"}

\* the answer of a check that runs debounce, cooldown, cap in this order
InOrder(p, admitted, reason) ==
    IF FailsDebounce(p) THEN ~admitted /\ reason \in DebounceReasons
    ELSE IF FailsCooldown(p) THEN ~admitted /\ reason = "symbol_interval"
    ELSE IF FailsCap(p) THEN ~admitted /\ reason = "daily_cap"
    ELSE admitted

(***************************************************************************)
(* C21  The guardrail check evaluates debounce first, then the per-symbol  *)
(* cooldown, then the daily cap, and stops at the first test that fails:   *)
(* a valid signal checked against a reachable store is rejected with the   *)
(* reason of the earliest failing test in that order, and admitted when    *)
(* none fails.                                                             *)
(* Violated in DDB: the handler tests the daily cap, then the cooldown,    *)
(* and only then the debounce counter, so a first delivery of a signal     *)
(* for a symbol in cooldown is answered with the cooldown reason.          *)
(***************************************************************************)
C21_ChecksInOrder ==
    [][(cur'.done /\ cur'.up /\ IsValid(cur'.p))
          => InOrder(cur'.p, cur'.admitted, cur'.reason)]_vars

(***************************************************************************)
(* C22  A guardrail check that rejects a signal leaves the debounce        *)
(* marker, the per-symbol last-trade timestamp and the daily counter as    *)
(* it found them, whatever the reason of the rejection.                    *)
(* Violated in DEP, which touches the debounce marker as soon as the       *)
(* debounce test has passed and before the cooldown and cap tests reject,  *)
(* and in DDB, which writes the incremented debounce counter before it     *)
(* rejects with the waiting answer.                                        *)
(***************************************************************************)
C22_RejectionLeavesRecordsUnchanged ==
    [][(cur'.done /\ cur'.up /\ IsValid(cur'.p) /\ cur'.reason \in GuardrailReasons)
          => UNCHANGED <<s3ta, s3dep, ddb>>]_vars

(***************************************************************************)
(* C23  The debounce key is a function of exactly the symbol, action,      *)
(* quantity and source of the event: two deliveries have the same          *)
(* debounce key if and only if they agree on these four fields, whatever   *)
(* their timestamps.                                                       *)
(* Violated in TA, whose one debounce object serves every event, and in    *)
(* DEP, whose hash covers the timestamp of the parsed event.               *)
(***************************************************************************)
C23_DebounceKeyOfFourFields ==
    call.fn \in {"TA_key", "DEP_key", "DDB_key"}
        => ((call.a.f = call.b.f) <=> (call.ka = call.kb))

(***************************************************************************)
(* C24  An answer of the broker that refuses the credentials (401 or 403)  *)
(* is fatal and is not retried: when the first answer to a broker request  *)
(* is such a refusal, the helper makes exactly one attempt and the request *)
(* fails; when the first attempt meets a rate limit or a transport error,  *)
(* a second attempt is made.                                               *)
(* Violated in DDB, where raise_for_status turns the 401 into an exception *)
(* that the retry loop catches like any other, and in DEP, which retries   *)
(* a 401 under urllib and does not retry a 429 under requests.             *)
(***************************************************************************)
C24_AuthErrorsAreNotRetried ==
    call.fn \in {"DEP", "DDB"} =>
        /\ call.script[1] = "http401" =>
              /\ call.r.attempts = 1
              /\ call.r.raised \/ call.r.status = 401
        /\ call.script[1] \in {"http429", "exc"} => call.r.attempts >= 2

\* the order requests of the latest placement that are protective orders
ProtectivePosts == {i \in DOMAIN call.r.posts : call.r.posts[i][1] # "main"}

\* the main order of the latest placement went through
MainPlaced ==
    /\ call.r.posts # <<>>
    /\ call.main \in {"accepted", "pending_new", "ok"}

\* the two sides, as either broker spells them
Opposite(side) ==
    CASE side = "buy" -> "sell" [] side = "sell" -> "buy"
      [] side = "BUY" -> "SELL" [] side = "SELL" -> "BUY"

(***************************************************************************)
(* C25  When protective orders are placed as orders of their own, each is  *)
(* sent only after the main order was placed, and on the side opposite to  *)
(* it.  A protective order that fails does not keep the other from being  *)
(* sent and does not fail the main order: the result of the main order is  *)
(* returned, and the failed protective order is reported as failed (in     *)
(* the result of place_order_with_stops, in the error log of               *)
(* _place_order_with_stop).                                                *)
(***************************************************************************)
C25_ProtectiveOrdersAreTolerated ==
    call.fn \in {"place_order_with_stops", "_place_order_with_stop"} =>
        /\ \A i \in ProtectivePosts :
              /\ i > 1 /\ call.r.posts[1] = <<"main", call.side>> /\ MainPlaced
              /\ call.r.posts[i][2] = Opposite(call.side)
        /\ (call.fn = "place_order_with_stops" /\ ProtectivePosts # {}) =>
              /\ {call.r.posts[i][1] : i \in ProtectivePosts} = {"stop", "profit"}
              /\ call.r.result = call.main
              /\ call.stop # "created" => call.r.stop_loss = "failed"
              /\ call.profit # "created" => call.r.take_profit = "failed"
        /\ (call.fn = "_place_order_with_stop" /\ ProtectivePosts # {}) =>
              /\ call.r.result = "order_id"
              /\ call.stop # "ok" => call.r.errors = 1
        /\ MainPlaced => call.r.result # "None"

\* a buy whose stop-loss request raised and whose take-profit was created
C25_Witness ==
    /\ call.fn = "place_order_with_stops" /\ call.side = "buy"
    /\ call.main = "accepted" /\ call.stop = "exc" /\ call.profit = "created"
    /\ call.r.posts = << <<"main", "buy">>, <<"stop", "sell">>, <<"profit", "sell">> >>
    /\ call.r.result = "accepted"
    /\ call.r.stop_loss = "failed" /\ call.r.take_profit = "new"

(***************************************************************************)
(* C26  A signal whose body carries a confidence below MIN_CONFIDENCE is   *)
(* skipped the way a guardrail rejection is: unless the guardrail has      *)
(* rejected it already, the handler answers 200, writes an execution-log   *)
(* record marked low confidence, and sends no order to the broker.         *)
(* Violated: the handler reads the confidence from the parsed event, into  *)
(* which the "confidence" field of the body is never copied, so every      *)
(* signal counts as confidence 1.0.                                        *)
(***************************************************************************)
C26_LowConfidenceIsSkipped ==
    (/\ cur.done /\ call.fn = "confidence_filter"
     /\ call.has_confidence /\ call.confidence < call.min_confidence
     /\ cur.reason \notin GuardrailReasons)
        => /\ ~cur.resp.raised /\ cur.resp.status = 200
           /\ ~cur.admitted /\ cur.attempts = 0
           /\ cur.reason = "low_confidence"
           /\ Len(cur.log) = 1
           /\ cur.log[1][2] = <<"skipped", "low_confidence">>

\* the invocation that has just returned carried a valid signal and could
\* not read the state store
UnreadableCheck == cur.done /\ ~cur.up /\ IsValid(cur.p)

\* the signal went on to order placement: with AUTO_EXECUTE a request was
\* sent to the broker
OrderAttempted == cur.admitted /\ (autoExecute => cur.attempts >= 1)

(***************************************************************************)
(* C27 as stated: when the state store cannot be read during the guardrail *)
(* check, the check fails open: the signal is admitted and the order is    *)
(* attempted.                                                              *)
(* Violated in TA: s3_read_json re-raises every error but a missing key,   *)
(* nothing catches it, and the invocation ends with the exception.         *)
(***************************************************************************)
C27_UnreadableStoreFailsOpen == UnreadableCheck => OrderAttempted

(***************************************************************************)
(* C27 amended: DEP and DDB fail open, the signal is admitted and the      *)
(* order is attempted; in TA the read error ends the invocation with an    *)
(* exception, the signal is not admitted and no order is placed.           *)
(***************************************************************************)
C27_AlpacaHandlersFailOpen ==
    UnreadableCheck =>
        IF impl = "TA"
        THEN cur.resp.raised /\ ~cur.admitted /\ cur.attempts = 0
        ELSE ~cur.resp.raised /\ cur.resp.status = 200 /\ OrderAttempted

\* DDB: the key of the signal is on record as executed, the table cannot be
\* read, and the order goes to the broker again
C27_Witness ==
    /\ impl = "DDB" /\ UnreadableCheck /\ autoExecute
    /\ StableKey(cur.p) \in ddb.event
    /\ cur.admitted /\ cur.attempts >= 1

\* DDB, table reachable: the step delivers the valid signal with stable key
\* k, which is not on record as executed and whose debounce counter is c
NewSignalDelivery(k, c) ==
    /\ impl = "DDB" /\ cur'.done /\ cur'.up /\ IsValid(cur'.p)
    /\ k = StableKey(cur'.p)
    /\ k \notin ddb.event
    /\ c = Get(ddb.debounce, k, 0)

\* the delivery is counted, answered with the waiting skip, and places no order
CountedAndWaiting(k, c) ==
    /\ Get(ddb'.debounce, k, 0) = c + 1
    /\ cur'.reason = "debounce_wait"
    /\ cur'.resp.status = 200
    /\ cur'.resp.message = "Debounce - waiting for repeated signal"
    /\ ~cur'.admitted /\ cur'.attempts = 0

RaceDayCount == StoreDayCount(Day(now), RaceEvent.symbol)

(***************************************************************************)
(* C29  The daily counter counts every admission: whenever one of two      *)
(* overlapping invocations writes the counter back for its admission, the  *)
(* stored counter becomes one more than it was, so that after any          *)
(* interleaving it has grown by the number of admissions recorded.         *)
(* Violated in all three handlers: the counter is read, incremented in     *)
(* memory and written back with a plain put, and the second writer stores  *)
(* the value the first one has already stored.                             *)
(***************************************************************************)
C29_NoIncrementLost ==
    [][\A i \in 1 .. 2 :
          (race'[i].recorded /\ ~race[i].recorded) => RaceDayCount' = RaceDayCount + 1]_vars

(***************************************************************************)
(* C30  In DDB with WEBHOOK_HMAC_SECRET configured no request is executed  *)
(* without a valid signature: a request whose X-Signature header is        *)
(* missing is answered 403 like one whose signature does not match, and    *)
(* reaches neither the guardrail check nor the order placement.            *)
(* Violated: the signature is verified only when the header is present; a  *)
(* request without the header goes on to the guardrail check and, once     *)
(* admitted, to the broker.                                                *)
(***************************************************************************)
C30_UnsignedRequestForbidden ==
    [][(impl = "DDB" /\ cur'.done /\ auth'.hmacSecret /\ auth'.sig # "match")
          => /\ cur'.resp.status = 403
             /\ ~cur'.admitted /\ cur'.attempts = 0
             /\ UNCHANGED <<ddb, execLog>>]_vars

====
